---- MODULE Spec2Model ----
(***************************************************************************)
(* Note lifecycle engine (src/audio/audioEngine.js), keyboard input        *)
(* handler (src/input/keyboard.js) and visual engine                       *)
(* (visuals/visualEngine.js) of the musical keyboard visualizer.           *)
(*                                                                         *)
(* Time is counted in units of 10 ms.  The audio clock (ctx.currentTime)   *)
(* and the timer clock of setTimeout are one clock.  The clock origin is   *)
(* moved with the clock: the current instant is always `now' = 0, and a    *)
(* Tick moves every stored timestamp into the past by the time that has    *)
(* passed.  A timestamp                                                    *)
(* stops moving once it is older than the horizon beyond which no          *)
(* computation of the program distinguishes it (MaxStartAge for startTime, *)
(* MaxReleaseAge for releaseStartTime).  The clock is observed on a grid   *)
(* (TickStep), and handlers run at those instants; a due timer callback    *)
(* runs at the instant it falls due, after any handlers that run at that   *)
(* instant before it.  The display refreshes at every instant of the grid: *)
(* a registered animation frame callback runs at the next one.             *)
(* Amplitudes and opacities are fixed-point numbers in units of 1e-6,      *)
(* frequencies are in units of 0.1 Hz.                                     *)
(***************************************************************************)
EXTENDS Integers, Sequences, FiniteSets, TLC

(* ---------------------------------------------------------------- bounds *)
MaxInstances == 3
MaxVisInstances == 2
MaxInitCalls == 2

(* ------------------------------------------------------------- constants *)
ATTACK_TIME == 2
RELEASE_TIME == 15
MAX_GAIN == 300000
GAIN_FLOOR == 1000
CLEANUP_MARGIN == 5
MIN_OCTAVE_OFFSET == -2
MAX_OCTAVE_OFFSET == 2

(* Horizons of the stored timestamps: getNoteGain compares the age of
   startTime with ATTACK_TIME and caps the age of releaseStartTime at
   RELEASE_TIME, so older timestamps are not distinguished. *)
MaxStartAge == ATTACK_TIME
MaxReleaseAge == RELEASE_TIME

(* The coarse grid of the clock, 50 ms: RELEASE_TIME and the cleanup delay
   are multiples of it. *)
CoarseStep == CLEANUP_MARGIN

Undefined == 999

(* visualSettings.fadeLength: default and clamp range, in units of 10 ms. *)
DEFAULT_FADE_LENGTH == 50
MIN_FADE_LENGTH == 10
MAX_FADE_LENGTH == 500

(* renderEntities: the gain amplification, the fade divisor (500 ms) and
   the opacity ceiling 1. *)
GAIN_AMPLIFY == 2
FADE_RENDER_SPAN == 50
OPACITY_ONE == 1000000

(* frequencyToRadius(frequency) = 20 + log2(frequency / 100) * 15 is
   negative below 100 * 2^(-20/15) = 39.68 Hz. *)
RADIUS_ZERO_FREQUENCY == 397

(* animationId = null *)
Null == 0

(* audioContext = null *)
NoContext == "none"

(* ctx.currentTime: the current instant is the clock origin. *)
now == 0

(* Identities and frequencies the engine is driven with directly. *)
NoteIds == {"n", "2"}
Freqs == {1100, 4400}

(* event.key values the keyboard handler is driven with. *)
RawKeys == {"n", "N", "2", "@", "Tab"}

(* Frequencies the engine is driven with under the render loop: A0 (key n
   two octaves down), whose base radius is negative, and A4. *)
VisFreqs == {275, 4400}
VisNotes == {<<"n", 275>>, <<"2", 4400>>}
FadeNoteIds == {"2"}

(* settings.fadeLength values updateVisualSettings is called with. *)
FadeLengthInputs == {5, 50}

(* MIDI numbers and offsets the functions of noteMap.js are called with: the
   range of the keyboard (C2..C6), and offsets on both sides of the clamp. *)
MidiInputs == 36..84
OffsetInputs == {-4, 2, 4}

(* settings.fadeLength values on both sides of the clamp range and of the
   3000 ms the settings slider ends at. *)
ClampInputs == {5, 50, 400, 600}

(* The upper end of the fade duration slider: max="3000". *)
SLIDER_MAX_FADE_LENGTH == 300

Min(a, b) == IF a < b THEN a ELSE b
Max(a, b) == IF a > b THEN a ELSE b

(* ------------------------------------------------------------ Map helpers *)
Has(m, k) == k \in DOMAIN m
MapSet(m, k, v) == [x \in (DOMAIN m) \cup {k} |-> IF x = k THEN v ELSE m[x]]
MapDelete(m, k) == [x \in (DOMAIN m) \ {k} |-> m[x]]
EmptyMap == [x \in {} |-> Undefined]

(* --------------------------------------------------------------- state *)
VARIABLES
  activeNotes,          \* Map noteId -> [node, frequency, isReleasing, instanceId]
  noteState,            \* noteState.active: Map noteId -> visual record
  instanceCounter,      \* instanceCounter
  nodes,                \* Map node id -> oscillator/gain pair, for the pairs that are
                        \* still referenced (by a note or a timer) or still connected
  timers,               \* pending setTimeout callbacks, in registration order
  pressedKeys,          \* pressedKeys (a Set, kept in insertion order)
  currentOctaveOffset,  \* noteMap.js currentOctaveOffset
  visualEntities,       \* visualEntities (a Map, kept in insertion order)
  visualSettings,       \* visualSettings
  animationId,          \* animationId
  frameRequest,         \* the requestAnimationFrame callback: "none", "pending"
                        \* (registered), "due" (a display refresh has come)
  frameCallbacks,       \* how many requestAnimationFrame callbacks the host holds
  frame,                \* what the last frame removed, computed and painted
  audioContext,         \* audioContext: NoContext (null), or the state of the context
  isInitialized,        \* main.js isInitialized
  initCalls,            \* the number of init() calls suspended at await ctx.resume()
  initRuns,             \* how many times the steps of init() after the await have run
  sinceFrame,           \* history: the identities a tone was started for since the
                        \* last frame, while a frame callback is registered
  noteQuery,            \* the value the last direct call of noteMap.js returned
  lastOp                \* history: the handler that ran last and the branch it took

engineVars == <<activeNotes, noteState, instanceCounter, nodes, timers>>
visualVars ==
  <<visualEntities, visualSettings, animationId, frameRequest, frameCallbacks, frame>>
appVars == <<audioContext, isInitialized, initCalls, initRuns>>
vars == <<activeNotes, noteState, instanceCounter, nodes, timers,
          pressedKeys, currentOctaveOffset,
          visualEntities, visualSettings, animationId, frameRequest, frameCallbacks,
          frame, audioContext, isInitialized, initCalls, initRuns, sinceFrame, noteQuery,
          lastOp>>

Engine ==
  [activeNotes |-> activeNotes, noteState |-> noteState,
   instanceCounter |-> instanceCounter, nodes |-> nodes, timers |-> timers]

SetEngine(E) ==
  /\ activeNotes' = E.activeNotes
  /\ noteState' = E.noteState
  /\ instanceCounter' = E.instanceCounter
  /\ nodes' = E.nodes
  /\ timers' = E.timers

Op(op, noteId, frequency, outcome) ==
  [op |-> op, noteId |-> noteId, frequency |-> frequency, outcome |-> outcome]

(* ----------------------------------------------------------- audio engine *)

(* getAudioContext(): the context after the call; a context is created
   suspended (its state becomes "running" asynchronously or by resume()). *)
getAudioContext(ctx) == IF ctx = NoContext THEN "suspended" ELSE ctx

(* Variant: the pair is stopped but left connected. *)
StopWithoutDisconnect(nd) == [nd EXCEPT !.stop = "immediate"]

(* oscillator.stop(); oscillator.disconnect(); gainNode.disconnect() *)
StopAndDisconnect(nd) ==
  [nd EXCEPT !.stop = "immediate",
             !.oscConnected = FALSE,
             !.gainConnected = FALSE]

forceStopNote(E, noteId) ==
  IF ~Has(E.activeNotes, noteId) THEN E
  ELSE LET n == E.activeNotes[noteId].node
       IN [E EXCEPT !.nodes = [@ EXCEPT ![n] = StopAndDisconnect(@)],
                    !.activeNotes = MapDelete(@, noteId),
                    !.noteState = MapDelete(@, noteId)]

(* Variant: a releasing note is treated as still playing. *)
PlayOutcomeNeverRetrigger(E, noteId) ==
  IF ~Has(E.activeNotes, noteId) THEN "fresh" ELSE "ignored"

(* Variant: a playing note is restarted. *)
PlayOutcomeAlwaysRestart(E, noteId) ==
  IF ~Has(E.activeNotes, noteId) THEN "fresh" ELSE "retrigger"

(* The branch playNote takes on (E, noteId). *)
PlayOutcome(E, noteId) ==
  IF ~Has(E.activeNotes, noteId) THEN "fresh"
  ELSE IF ~E.activeNotes[noteId].isReleasing THEN "ignored"
  ELSE "retrigger"

(* Variant: the counter is not advanced after the first instance. *)
ReusedInstanceId(E) == Max(1, E.instanceCounter)

(* ++instanceCounter *)
NewInstanceId(E) == E.instanceCounter + 1

(* A name for the pair created by createOscillator/createGain: the first
   one that no pair in use carries. *)
NewNode(E) == CHOOSE n \in 1..(Cardinality(DOMAIN E.nodes) + 1) : ~Has(E.nodes, n)

(* A pair that nothing references and that is disconnected is garbage. *)
Referenced(E, n) ==
  \/ \E k \in DOMAIN E.activeNotes : E.activeNotes[k].node = n
  \/ \E i \in DOMAIN E.timers : E.timers[i].node = n

Collect(E) ==
  [E EXCEPT !.nodes =
     LET keep == {n \in DOMAIN @ :
                    Referenced(E, n) \/ @[n].oscConnected \/ @[n].gainConnected}
     IN [n \in keep |-> @[n]]]

playNote(E, noteId, frequency) ==
  IF PlayOutcome(E, noteId) = "ignored" THEN E
  ELSE
    LET E1 == IF Has(E.activeNotes, noteId) THEN forceStopNote(E, noteId) ELSE E
        n == NewNode(E1)
        instanceId == NewInstanceId(E1)
    IN [activeNotes |->
          MapSet(E1.activeNotes, noteId,
                 [node |-> n, frequency |-> frequency,
                  isReleasing |-> FALSE, instanceId |-> instanceId]),
        noteState |->
          MapSet(E1.noteState, noteId,
                 [frequency |-> frequency, gain |-> MAX_GAIN, startTime |-> now,
                  instanceId |-> instanceId,
                  releasing |-> FALSE, releaseStartTime |-> Undefined]),
        instanceCounter |-> instanceId,
        nodes |->
          MapSet(E1.nodes, n,
                 [noteId |-> noteId, instanceId |-> instanceId,
                  oscConnected |-> TRUE, gainConnected |-> TRUE,
                  decays |-> 0, stop |-> "none"]),
        timers |-> E1.timers]

(* Where playNote can be left by an exception: at getAudioContext(), when
   the constructor of the context throws (no context exists yet), and at the
   creation and set-up of the oscillator. *)
FailStages == {"context", "oscillator"}

(* Variant: the instance is stored before its resources are created. *)
playNoteThrowingAfterStore(E, noteId, frequency) == playNote(E, noteId, frequency)

(* playNote(noteId, frequency) on E up to an exception thrown at the creation
   of the oscillator: the teardown of a releasing instance has run, nothing
   after it has. *)
playNoteThrowing(E, noteId, frequency) ==
  IF Has(E.activeNotes, noteId) THEN forceStopNote(E, noteId) ELSE E

(* Variant: the isReleasing check is missing. *)
StopOutcomeNoReleasingCheck(E, noteId) ==
  IF ~Has(E.activeNotes, noteId) THEN "unknown" ELSE "released"

(* The branch stopNote takes on (E, noteId). *)
StopOutcome(E, noteId) ==
  IF ~Has(E.activeNotes, noteId) THEN "unknown"
  ELSE IF E.activeNotes[noteId].isReleasing THEN "already"
  ELSE "released"

(* Variant: the note is torn down at once instead of released. *)
stopNoteImmediate(E, noteId) == forceStopNote(E, noteId)

(* Variant: the entry of noteState.active is not marked as releasing. *)
stopNoteWithoutVisualFlag(E, noteId) ==
  IF StopOutcome(E, noteId) # "released" THEN E
  ELSE
    LET note == E.activeNotes[noteId]
        currentInstanceId == note.instanceId
    IN [E EXCEPT
          !.activeNotes = [@ EXCEPT ![noteId].isReleasing = TRUE],
          !.nodes = [@ EXCEPT ![note.node].decays = @ + 1,
                              ![note.node].stop = "scheduled"],
          !.timers = Append(@, [noteId |-> noteId,
                                instanceId |-> currentInstanceId,
                                node |-> note.node,
                                fireAt |-> now + RELEASE_TIME + CLEANUP_MARGIN])]

stopNote(E, noteId) ==
  IF StopOutcome(E, noteId) # "released" THEN E
  ELSE
    LET note == E.activeNotes[noteId]
        currentInstanceId == note.instanceId
    IN [E EXCEPT
          !.activeNotes = [@ EXCEPT ![noteId].isReleasing = TRUE],
          !.nodes = [@ EXCEPT ![note.node].decays = @ + 1,
                              ![note.node].stop = "scheduled"],
          !.timers = Append(@, [noteId |-> noteId,
                                instanceId |-> currentInstanceId,
                                node |-> note.node,
                                fireAt |-> now + RELEASE_TIME + CLEANUP_MARGIN]),
          !.noteState = IF Has(@, noteId)
                        THEN [@ EXCEPT ![noteId].releasing = TRUE,
                                       ![noteId].releaseStartTime = now]
                        ELSE @]

(* The branch the cleanup callback t takes on E. *)
CleanupOutcome(E, t) ==
  IF ~Has(E.activeNotes, t.noteId) THEN "gone"
  ELSE IF E.activeNotes[t.noteId].instanceId = t.instanceId THEN "removed"
  ELSE "stale"

(* Variant: the instance id is not compared. *)
CleanupDeletesIgnoringId(E, t) == TRUE

(* Variant: the callback only disconnects. *)
CleanupDeletesNever(E, t) == FALSE

(* !currentNote || currentNote.instanceId === currentInstanceId *)
CleanupDeletes(E, t) ==
  \/ ~Has(E.activeNotes, t.noteId)
  \/ E.activeNotes[t.noteId].instanceId = t.instanceId

(* Variant: the callback disconnects the pair of the identity's current
   occupant instead of the pair it captured. *)
cleanupDisconnectsOccupant(E, t) ==
  LET target == IF Has(E.activeNotes, t.noteId)
                THEN E.activeNotes[t.noteId].node ELSE t.node
      E1 == IF CleanupDeletes(E, t)
            THEN [E EXCEPT !.activeNotes = MapDelete(@, t.noteId),
                           !.noteState = MapDelete(@, t.noteId)]
            ELSE E
  IN Collect([E1 EXCEPT !.nodes = [@ EXCEPT ![target].oscConnected = FALSE,
                                            ![target].gainConnected = FALSE],
                        !.timers = Tail(@)])

(* Variant: the callback leaves the entry of noteState.active. *)
cleanupKeepsVisualEntry(E, t) ==
  LET E1 == IF CleanupDeletes(E, t)
            THEN [E EXCEPT !.activeNotes = MapDelete(@, t.noteId)]
            ELSE E
  IN Collect([E1 EXCEPT !.nodes = [@ EXCEPT ![t.node].oscConnected = FALSE,
                                            ![t.node].gainConnected = FALSE],
                        !.timers = Tail(@)])

(* The setTimeout callback of stopNote; t is the head of the timer queue. *)
cleanup(E, t) ==
  LET E1 == IF CleanupDeletes(E, t)
            THEN [E EXCEPT !.activeNotes = MapDelete(@, t.noteId),
                           !.noteState = MapDelete(@, t.noteId)]
            ELSE E
  IN Collect([E1 EXCEPT !.nodes = [@ EXCEPT ![t.node].oscConnected = FALSE,
                                            ![t.node].gainConnected = FALSE],
                        !.timers = Tail(@)])

(* MAX_GAIN * Math.pow(0.001 / MAX_GAIN, p) for p = e / RELEASE_TIME, e = 0..15 *)
ReleaseCurve ==
  <<300000, 205107, 140229, 95873, 65547, 44814, 30639, 20947,
    14322, 9791, 6694, 4577, 3129, 2139, 1463, 1000>>

(* Variant: the has-checks are missing and an absent entry falls through to
   the sustain value. *)
getNoteGainNoCheck(E, noteId, t) ==
  IF ~Has(E.activeNotes, noteId) \/ ~Has(E.noteState, noteId) THEN MAX_GAIN
  ELSE LET noteData == E.noteState[noteId]
           elapsed == t - noteData.startTime
       IN IF noteData.releasing
          THEN ReleaseCurve[Min(t - noteData.releaseStartTime, RELEASE_TIME) + 1]
          ELSE IF elapsed < ATTACK_TIME
          THEN (elapsed * MAX_GAIN) \div ATTACK_TIME
          ELSE MAX_GAIN

(* Variant: the release is a linear ramp to zero. *)
getNoteGainLinearRelease(E, noteId, t) ==
  IF ~Has(E.activeNotes, noteId) THEN 0
  ELSE IF ~Has(E.noteState, noteId) THEN 0
  ELSE LET noteData == E.noteState[noteId]
           elapsed == t - noteData.startTime
       IN IF noteData.releasing
          THEN (MAX_GAIN * (RELEASE_TIME - Min(t - noteData.releaseStartTime, RELEASE_TIME)))
                 \div RELEASE_TIME
          ELSE IF elapsed < ATTACK_TIME
          THEN (elapsed * MAX_GAIN) \div ATTACK_TIME
          ELSE MAX_GAIN

(* Variant: the attack ramp is not cut off at ATTACK_TIME. *)
getNoteGainUncapped(E, noteId, t) ==
  IF ~Has(E.activeNotes, noteId) THEN 0
  ELSE IF ~Has(E.noteState, noteId) THEN 0
  ELSE LET noteData == E.noteState[noteId]
           elapsed == t - noteData.startTime
       IN IF noteData.releasing
          THEN ReleaseCurve[Min(t - noteData.releaseStartTime, RELEASE_TIME) + 1]
          ELSE (elapsed * MAX_GAIN) \div ATTACK_TIME

(* getNoteGain(noteId) with ctx.currentTime = t *)
getNoteGainAt(E, noteId, t) ==
  IF ~Has(E.activeNotes, noteId) THEN 0
  ELSE IF ~Has(E.noteState, noteId) THEN 0
  ELSE LET noteData == E.noteState[noteId]
           elapsed == t - noteData.startTime
       IN IF noteData.releasing
          THEN ReleaseCurve[Min(t - noteData.releaseStartTime, RELEASE_TIME) + 1]
          ELSE IF elapsed < ATTACK_TIME
          THEN (elapsed * MAX_GAIN) \div ATTACK_TIME
          ELSE MAX_GAIN

getNoteGain(noteId) == getNoteGainAt(Engine, noteId, now)

getActiveNoteIds == DOMAIN noteState

(* ---------------------------------------------------------------- noteMap *)
KEY_TO_NOTE == [k \in {"n", "2"} |-> IF k = "n" THEN 45 ELSE 49]

(* round(1e4 * 2^(s/12)) for s = 0..11 *)
SemitoneRatio ==
  <<10000, 10595, 11225, 11892, 12599, 13348,
    14142, 14983, 15874, 16818, 17818, 18877>>

RECURSIVE Pow2(_)
Pow2(n) == IF n = 0 THEN 1 ELSE 2 * Pow2(n - 1)

(* Variant: the octave offset is added as semitones, not as octaves. *)
midiToFrequencyOffsetInSemitones(midiNote, octaveOffset) ==
  LET adjustedMidi == midiNote + octaveOffset
      d == adjustedMidi - 69
      oct == d \div 12
      semi == d % 12
  IN IF oct >= 0
     THEN (4400 * Pow2(oct) * SemitoneRatio[semi + 1]) \div 10000
     ELSE (4400 * SemitoneRatio[semi + 1]) \div (10000 * Pow2(-oct))

(* 440 * Math.pow(2, (adjustedMidi - 69) / 12), in units of 0.1 Hz *)
midiToFrequency(midiNote, octaveOffset) ==
  LET adjustedMidi == midiNote + octaveOffset * 12
      d == adjustedMidi - 69
      oct == d \div 12
      semi == d % 12
  IN IF oct >= 0
     THEN (4400 * Pow2(oct) * SemitoneRatio[semi + 1]) \div 10000
     ELSE (4400 * SemitoneRatio[semi + 1]) \div (10000 * Pow2(-oct))

(* Variant: only the upper end is clamped. *)
setOctaveOffsetNoLowerClamp(offset) == Min(MAX_OCTAVE_OFFSET, offset)

setOctaveOffset(offset) == Max(MIN_OCTAVE_OFFSET, Min(MAX_OCTAVE_OFFSET, offset))

ToLowerCase(key) == IF key = "N" THEN "n" ELSE key

isNoteKey(key) == Has(KEY_TO_NOTE, IF Len(key) = 1 THEN ToLowerCase(key) ELSE key)

getNoteForKeyFrequency(key) ==
  midiToFrequency(KEY_TO_NOTE[IF Len(key) = 1 THEN ToLowerCase(key) ELSE key],
                  currentOctaveOffset)

(* noteData.octave of the keys of KEY_TO_NOTE *)
KEY_TO_OCTAVE == [k \in DOMAIN KEY_TO_NOTE |-> IF k = "n" THEN 2 ELSE 3]

(* --------------------------------------------------------------- keyboard *)
normalizeKey(key) == IF Len(key) > 1 THEN key ELSE ToLowerCase(key)

SeqHas(s, x) == \E i \in DOMAIN s : s[i] = x
SeqDelete(s, x) == SelectSeq(s, LAMBDA y : y # x)
SetAdd(s, x) == IF SeqHas(s, x) THEN s ELSE Append(s, x)

(* Variant: the keys are forgotten without stopping their notes. *)
clearWithoutStop(E, keys) == E

(* for (const key of pressedKeys) stopNote(key) *)
RECURSIVE releaseAllKeys(_, _)
releaseAllKeys(E, keys) ==
  IF keys = <<>> THEN E ELSE releaseAllKeys(stopNote(E, Head(keys)), Tail(keys))

(* ------------------------------------------------------------------ math *)

(* JavaScript division and remainder of fixed-point numbers: towards zero,
   and with the sign of the dividend. *)
TruncDiv(a, b) == IF a >= 0 THEN a \div b ELSE 0 - ((0 - a) \div b)
Remainder(a, b) == a - b * TruncDiv(a, b)

(* ((frequency - 261.63) / (493.88 - 261.63) * 300 + 240) % 360, in units of
   0.01 degree: 300 / 232.25 = 1200 / 929. *)
frequencyToHue(frequency) ==
  Remainder(TruncDiv((frequency * 10 - 26163) * 1200, 929) + 24000, 36000)

(* Math.floor(12 * Math.log2(frequency / 100)): the number of whole
   semitones frequency lies above 100 Hz. *)
Log2Semitones(frequency) ==
  LET below(s) ==
        LET oct == s \div 12
            ratio == SemitoneRatio[(s % 12) + 1]
        IN IF oct >= 0 THEN ratio * Pow2(oct) <= frequency * 10
           ELSE ratio <= frequency * 10 * Pow2(0 - oct)
  IN CHOOSE s \in -72..72 : below(s) /\ ~below(s + 1)

(* baseRadius + Math.log2(frequency / 100) * scale with baseRadius = 20 and
   scale = 15, in units of 0.01 px, the logarithm taken to the semitone below
   (15 / 12 = 1.25 px per semitone): zero at 100 * 2^(-16/12) = 39.68 Hz. *)
frequencyToRadius(frequency) == 2000 + 125 * Log2Semitones(frequency)

(* 0.5 + (frequency / 440) * 0.5, in units of 0.001 *)
frequencyToSpeed(frequency) == 500 + (frequency * 500) \div 4400

(* ---------------------------------------------------------- visual engine *)

(* Math.max(100, Math.min(5000, settings.fadeLength)) *)
updateVisualSettingsFadeLength(fadeLength) ==
  Max(MIN_FADE_LENGTH, Min(MAX_FADE_LENGTH, fadeLength))

(* The largest fade length in use, and the horizon of fadeStartTime: the
   program compares its age with fadeLength and with the 500 ms of
   renderEntities only. *)
MaxFadeLength ==
  LET used == {updateVisualSettingsFadeLength(v) : v \in FadeLengthInputs}
                \cup {DEFAULT_FADE_LENGTH, FADE_RENDER_SPAN}
  IN CHOOSE m \in used : \A v \in used : v <= m
FadeHorizon == MaxFadeLength + 1

HasEntity(V, noteId) == \E i \in DOMAIN V : V[i].noteId = noteId
EntityOf(V, noteId) == V[CHOOSE i \in DOMAIN V : V[i].noteId = noteId]

(* The iteration order of noteState.active: an entry is inserted when its
   instance is created, so the order is that of the instance ids. *)
RECURSIVE ActiveOrder(_)
ActiveOrder(ns) ==
  IF DOMAIN ns = {} THEN <<>>
  ELSE LET k == CHOOSE k \in DOMAIN ns :
                  \A j \in DOMAIN ns : ns[k].instanceId <= ns[j].instanceId
       IN <<k>> \o ActiveOrder(MapDelete(ns, k))

(* The entity's startTime and position only place what is painted. *)
createVisualEntity(noteId, noteData) ==
  [noteId |-> noteId, frequency |-> noteData.frequency,
   hue |-> frequencyToHue(noteData.frequency),
   baseRadius |-> frequencyToRadius(noteData.frequency),
   speed |-> frequencyToSpeed(noteData.frequency),
   fading |-> FALSE, fadeStartTime |-> Undefined]

(* Variant: the entity of an active identity is derived again from the
   identity's current tone. *)
RECURSIVE AddEntitiesRefreshing(_, _, _)
AddEntitiesRefreshing(V, ns, order) ==
  IF order = <<>> THEN V
  ELSE LET noteId == Head(order)
           fresh == createVisualEntity(noteId, ns[noteId])
       IN AddEntitiesRefreshing(
            IF HasEntity(V, noteId)
            THEN [i \in DOMAIN V |->
                    IF V[i].noteId = noteId
                    THEN [V[i] EXCEPT !.frequency = fresh.frequency, !.hue = fresh.hue,
                                      !.baseRadius = fresh.baseRadius,
                                      !.speed = fresh.speed]
                    ELSE V[i]]
            ELSE Append(V, fresh),
            ns, Tail(order))

(* for (const [noteId, noteData] of noteState.active) ... *)
RECURSIVE AddEntities(_, _, _)
AddEntities(V, ns, order) ==
  IF order = <<>> THEN V
  ELSE LET noteId == Head(order)
       IN AddEntities(IF HasEntity(V, noteId) THEN V
                      ELSE Append(V, createVisualEntity(noteId, ns[noteId])),
                      ns, Tail(order))

(* Variant: an entity starts to fade when its note is released. *)
MarkFadingOnRelease(V, ns) ==
  [i \in DOMAIN V |->
     IF (~Has(ns, V[i].noteId) \/ ns[V[i].noteId].releasing) /\ ~V[i].fading
     THEN [V[i] EXCEPT !.fading = TRUE, !.fadeStartTime = now]
     ELSE V[i]]

(* Variant: the fading flag is not consulted. *)
MarkFadingAgain(V, ns) ==
  [i \in DOMAIN V |->
     IF ~Has(ns, V[i].noteId)
     THEN [V[i] EXCEPT !.fading = TRUE, !.fadeStartTime = now]
     ELSE V[i]]

(* if (!noteState.active.has(noteId) && !entity.fading) ... *)
MarkFading(V, ns) ==
  [i \in DOMAIN V |->
     IF ~Has(ns, V[i].noteId) /\ ~V[i].fading
     THEN [V[i] EXCEPT !.fading = TRUE, !.fadeStartTime = now]
     ELSE V[i]]

(* Variant: >= in place of >. *)
FullyFadedAtLength(entity, fadeLength) ==
  entity.fading /\ now - entity.fadeStartTime >= fadeLength

(* entity.fading && currentTime - entity.fadeStartTime > visualSettings.fadeLength *)
FullyFaded(entity, fadeLength) ==
  entity.fading /\ now - entity.fadeStartTime > fadeLength

RemoveFaded(V, fadeLength) == SelectSeq(V, LAMBDA entity : ~FullyFaded(entity, fadeLength))

(* Variant: the entries of the notes that are being released are dropped from
   noteState.active. *)
updateVisualEntitiesPruning(V, ns, fadeLength) ==
  [visualEntities |->
     RemoveFaded(MarkFading(AddEntities(V, ns, ActiveOrder(ns)), ns), fadeLength),
   noteState |-> [k \in {j \in DOMAIN ns : ~ns[j].releasing} |-> ns[k]]]

(* updateVisualEntities(currentTime) at currentTime = now, on the entities V
   and the shared noteState.active ns: both as it leaves them. *)
updateVisualEntities(V, ns, fadeLength) ==
  [visualEntities |->
     RemoveFaded(MarkFading(AddEntities(V, ns, ActiveOrder(ns)), ns), fadeLength),
   noteState |-> ns]

(* Painting an entity throws when its base radius is negative (arc and
   createRadialGradient reject a negative radius). *)
PaintThrows(entity) == entity.frequency < RADIUS_ZERO_FREQUENCY

(* Variant: the fade runs over the configured fadeLength. *)
FadeSpanConfigured(fadeLength) == fadeLength

(* The span of the fade in renderEntities: / 500. *)
FadeSpan(fadeLength) == FADE_RENDER_SPAN

(* Variant: a fading entity is drawn from its fade factor alone, whatever
   the gain of its identity. *)
OpacityOfFadeAlone(E, entity, fadeLength) ==
  LET gain == getNoteGainAt(E, entity.noteId, now)
      amplified == gain * GAIN_AMPLIFY
      faded == IF entity.fading
               THEN (OPACITY_ONE *
                      Max(0, FadeSpan(fadeLength) - (now - entity.fadeStartTime)))
                    \div FadeSpan(fadeLength)
               ELSE amplified
  IN Min(faded, OPACITY_ONE)

(* The opacity renderEntities computes for an entity. *)
Opacity(E, entity, fadeLength) ==
  LET gain == getNoteGainAt(E, entity.noteId, now)
      amplified == gain * GAIN_AMPLIFY
      faded == IF entity.fading
               THEN (amplified *
                      Max(0, FadeSpan(fadeLength) - (now - entity.fadeStartTime)))
                    \div FadeSpan(fadeLength)
               ELSE amplified
  IN Min(faded, OPACITY_ONE)

EmptyFrame ==
  [removed |-> {}, missed |-> {}, opacity |-> EmptyMap, painted |-> {}, threw |-> FALSE]

(* renderEntities(currentTime, deltaTime): the opacities computed and the
   entities painted, up to the first exception. *)
RECURSIVE renderEntities(_, _, _, _)
renderEntities(E, V, fadeLength, F) ==
  IF V = <<>> THEN F
  ELSE LET entity == Head(V)
           opacity == Opacity(E, entity, fadeLength)
           F1 == [F EXCEPT !.opacity = MapSet(@, entity.noteId, opacity)]
       IN IF opacity <= 0 THEN renderEntities(E, Tail(V), fadeLength, F1)
          ELSE IF PaintThrows(entity) THEN [F1 EXCEPT !.threw = TRUE]
          ELSE renderEntities(E, Tail(V), fadeLength,
                              [F1 EXCEPT !.painted = @ \cup {entity.noteId}])

(* What a direct call of a function of noteMap.js was given and returned:
   fn its name, key / midiNote / octaveOffset its arguments, value the number
   returned (an offset or a frequency), found whether getNoteForKey returned
   note data, adjustedMidi and adjustedOctave the fields of that data. *)
NoQuery ==
  [fn |-> "", key |-> "", midiNote |-> 0, octaveOffset |-> 0, value |-> 0,
   found |-> FALSE, adjustedMidi |-> 0, adjustedOctave |-> 0]

(* getNoteForKey(key) at the octave offset currentOffset: the note data
   returned (found = FALSE for null). *)
getNoteForKey(key, currentOffset) ==
  LET normalizedKey == IF Len(key) = 1 THEN ToLowerCase(key) ELSE key
  IN IF ~Has(KEY_TO_NOTE, normalizedKey)
     THEN [NoQuery EXCEPT !.fn = "getNoteForKey", !.key = normalizedKey,
                          !.octaveOffset = currentOffset]
     ELSE [fn |-> "getNoteForKey", key |-> normalizedKey,
           midiNote |-> KEY_TO_NOTE[normalizedKey],
           octaveOffset |-> currentOffset,
           value |-> midiToFrequency(KEY_TO_NOTE[normalizedKey], currentOffset),
           found |-> TRUE,
           adjustedMidi |-> KEY_TO_NOTE[normalizedKey] + currentOffset * 12,
           adjustedOctave |-> KEY_TO_OCTAVE[normalizedKey] + currentOffset]

(* ------------------------------------------------------------------ Init *)
Init ==
  /\ activeNotes = EmptyMap
  /\ noteState = EmptyMap
  /\ instanceCounter = 0
  /\ nodes = EmptyMap
  /\ timers = <<>>
  /\ pressedKeys = <<>>
  /\ currentOctaveOffset = 0
  /\ visualEntities = <<>>
  /\ visualSettings = [fadeLength |-> DEFAULT_FADE_LENGTH]
  /\ animationId = Null
  /\ frameRequest = "none"
  /\ frameCallbacks = 0
  /\ frame = EmptyFrame
  /\ audioContext = NoContext
  /\ isInitialized = FALSE
  /\ initCalls = 0
  /\ initRuns = 0
  /\ sinceFrame = {}
  /\ noteQuery = NoQuery
  /\ lastOp = Op("init", "", 0, "")

(* --------------------------------------------------------------- actions *)

(* The identities started since the last frame, after a call for noteId
   that has or has not started a tone. *)
NoteStarted(noteId, started) ==
  IF started /\ frameRequest # "none" THEN sinceFrame \cup {noteId} ELSE sinceFrame

(* A direct call playNote(noteId, frequency). *)
PlayNote(noteId, frequency) ==
  /\ PlayOutcome(Engine, noteId) # "ignored" => instanceCounter < MaxInstances
  /\ SetEngine(playNote(Engine, noteId, frequency))
  /\ audioContext' = getAudioContext(audioContext)
  /\ sinceFrame' = NoteStarted(noteId, PlayOutcome(Engine, noteId) # "ignored")
  /\ lastOp' = Op("playNote", noteId, frequency, PlayOutcome(Engine, noteId))
  /\ UNCHANGED <<pressedKeys, currentOctaveOffset, visualVars,
                 isInitialized, initCalls, initRuns, noteQuery>>

(* The engine and the context after a call playNote(noteId, frequency) that
   an exception leaves at stage. *)
PlayThrows(noteId, frequency, stage) ==
  /\ stage = "context" => audioContext = NoContext
  /\ stage = "oscillator" => PlayOutcome(Engine, noteId) # "ignored"
  /\ IF stage = "context"
     THEN UNCHANGED <<engineVars, audioContext>>
     ELSE /\ SetEngine(playNoteThrowing(Engine, noteId, frequency))
          /\ audioContext' = getAudioContext(audioContext)

(* A direct call playNote(noteId, frequency) that throws. *)
PlayNoteThrows(noteId, frequency, stage) ==
  /\ PlayThrows(noteId, frequency, stage)
  /\ lastOp' = Op("playNote", noteId, frequency, "threw")
  /\ UNCHANGED <<pressedKeys, currentOctaveOffset, visualVars,
                 isInitialized, initCalls, initRuns, sinceFrame, noteQuery>>

(* A direct call stopNote(noteId). *)
StopNote(noteId) ==
  /\ SetEngine(stopNote(Engine, noteId))
  /\ lastOp' = Op("stopNote", noteId, 0, StopOutcome(Engine, noteId))
  /\ UNCHANGED <<pressedKeys, currentOctaveOffset, visualVars, appVars,
                 sinceFrame, noteQuery>>

(* The oldest pending setTimeout callback runs. *)
CleanupTimer ==
  /\ timers # <<>>
  /\ Head(timers).fireAt <= now
  /\ SetEngine(cleanup(Engine, Head(timers)))
  /\ lastOp' = Op("cleanup", Head(timers).noteId, 0,
                  CleanupOutcome(Engine, Head(timers)))
  /\ UNCHANGED <<pressedKeys, currentOctaveOffset, visualVars, appVars,
                 sinceFrame, noteQuery>>

(* A timestamp t seen from an origin d units later. *)
Shift(t, d, horizon) == IF t = Undefined THEN Undefined ELSE Max(t - d, 0 - horizon)

Attacking(k) ==
  /\ Has(activeNotes, k) /\ Has(noteState, k)
  /\ ~noteState[k].releasing
  /\ now - noteState[k].startTime < ATTACK_TIME

(* The instants at which handlers run: every 10 ms while an attack ramp is
   running and no timer is pending; the instant the next timer falls due;
   every CoarseStep units otherwise. *)
TickStep ==
  IF timers = <<>> /\ \E k \in DOMAIN activeNotes : Attacking(k) THEN 1
  ELSE IF timers = <<>> THEN CoarseStep
  ELSE Max(1, Min(CoarseStep, Head(timers).fireAt - now))

(* Time passes: ctx.currentTime and the timer clock advance by TickStep; if
   the display refreshes, a registered frame callback falls due. *)
TimePasses(refresh) ==
  /\ timers # <<>> => now < Head(timers).fireAt
  /\ frameRequest # "due"
  /\ noteState' =
       [k \in DOMAIN noteState |->
          [noteState[k] EXCEPT
             !.startTime = Shift(@, TickStep, MaxStartAge),
             !.releaseStartTime = Shift(@, TickStep, MaxReleaseAge)]]
  /\ timers' = [i \in DOMAIN timers |-> [timers[i] EXCEPT !.fireAt = @ - TickStep]]
  /\ lastOp' = Op("tick", "", 0, IF refresh THEN "" ELSE "hidden")
  /\ visualEntities' =
       [i \in DOMAIN visualEntities |->
          [visualEntities[i] EXCEPT !.fadeStartTime = Shift(@, TickStep, FadeHorizon)]]
  /\ frameRequest' = IF refresh /\ frameRequest = "pending" THEN "due" ELSE frameRequest
  /\ UNCHANGED <<activeNotes, instanceCounter, nodes, pressedKeys, currentOctaveOffset,
                 visualSettings, animationId, frameCallbacks, frame, appVars,
                 sinceFrame, noteQuery>>

(* Time passes while the page is shown: the display refreshes. *)
Tick == TimePasses(TRUE)

(* Time passes while the page is hidden: the host runs timers but no
   animation frame callback. *)
TickHidden ==
  /\ frameRequest = "pending"
  /\ TimePasses(FALSE)

(* Variant: the pressedKeys test is missing. *)
KeyDownOutcomeNoDedupe(raw, mod) ==
  IF mod THEN "modifier"
  ELSE IF ~isNoteKey(normalizeKey(raw)) THEN "notNote"
  ELSE "played"

(* handleKeyDown(event) with event.key = raw; mod: a meta/ctrl/alt key is held. *)
KeyDownOutcome(raw, mod) ==
  IF mod THEN "modifier"
  ELSE IF ~isNoteKey(normalizeKey(raw)) THEN "notNote"
  ELSE IF SeqHas(pressedKeys, normalizeKey(raw)) THEN "held"
  ELSE "played"

HandleKeyDown(raw, mod) ==
  LET key == normalizeKey(raw) IN
  /\ IF KeyDownOutcome(raw, mod) = "played"
     THEN /\ PlayOutcome(Engine, key) # "ignored" => instanceCounter < MaxInstances
          /\ pressedKeys' = SetAdd(pressedKeys, key)
          /\ SetEngine(playNote(Engine, key, getNoteForKeyFrequency(key)))
          /\ audioContext' = getAudioContext(audioContext)
          /\ sinceFrame' = NoteStarted(key, PlayOutcome(Engine, key) # "ignored")
     ELSE UNCHANGED <<engineVars, pressedKeys, audioContext, sinceFrame>>
  /\ lastOp' = Op("keydown", key, 0, KeyDownOutcome(raw, mod))
  /\ UNCHANGED <<currentOctaveOffset, visualVars,
                 isInitialized, initCalls, initRuns, noteQuery>>

(* The physical key whose events carry event.key = raw: with Shift held the
   key of n reports "N" and the key of 2 reports "@". *)
PhysicalKey(raw) == IF raw = "N" THEN "n" ELSE IF raw = "@" THEN "2" ELSE raw

(* handleKeyDown(event) when playNote throws: the exception leaves the
   handler, after pressedKeys.add(key). *)
HandleKeyDownThrows(raw, stage) ==
  LET key == normalizeKey(raw) IN
  /\ KeyDownOutcome(raw, FALSE) = "played"
  /\ pressedKeys' = SetAdd(pressedKeys, key)
  /\ PlayThrows(key, getNoteForKeyFrequency(key), stage)
  /\ lastOp' = Op("keydown", key, 0, "threw")
  /\ UNCHANGED <<currentOctaveOffset, visualVars,
                 isInitialized, initCalls, initRuns, sinceFrame, noteQuery>>

(* Variant: the key is dropped from pressedKeys and its note is not stopped. *)
HandleKeyUpWithoutStop(raw) ==
  LET key == normalizeKey(raw) IN
  /\ IF SeqHas(pressedKeys, key)
     THEN /\ pressedKeys' = SeqDelete(pressedKeys, key)
          /\ UNCHANGED engineVars
     ELSE UNCHANGED <<engineVars, pressedKeys>>
  /\ lastOp' = Op("keyup", key, 0,
                  IF SeqHas(pressedKeys, key) THEN "released" ELSE "untracked")
  /\ UNCHANGED <<currentOctaveOffset, visualVars, appVars, sinceFrame, noteQuery>>

(* handleKeyUp(event) with event.key = raw. *)
HandleKeyUp(raw) ==
  LET key == normalizeKey(raw) IN
  /\ IF SeqHas(pressedKeys, key)
     THEN /\ pressedKeys' = SeqDelete(pressedKeys, key)
          /\ SetEngine(stopNote(Engine, key))
     ELSE UNCHANGED <<engineVars, pressedKeys>>
  /\ lastOp' = Op("keyup", key, 0,
                  IF SeqHas(pressedKeys, key) THEN "released" ELSE "untracked")
  /\ UNCHANGED <<currentOctaveOffset, visualVars, appVars, sinceFrame, noteQuery>>

(* The window blur listener: releaseAllKeys(). *)
ReleaseAllKeys ==
  /\ SetEngine(releaseAllKeys(Engine, pressedKeys))
  /\ pressedKeys' = <<>>
  /\ lastOp' = Op("blur", "", 0, IF pressedKeys = <<>> THEN "idle" ELSE "released")
  /\ UNCHANGED <<currentOctaveOffset, visualVars, appVars, sinceFrame, noteQuery>>

(* octaveUp(), octaveDown(), resetOctave(): setOctaveOffset(offset). *)
SetOctaveOffset(offset) ==
  /\ currentOctaveOffset' = setOctaveOffset(offset)
  /\ noteQuery' = [NoQuery EXCEPT !.fn = "setOctaveOffset", !.octaveOffset = offset,
                                  !.value = setOctaveOffset(offset)]
  /\ lastOp' = Op("octave", "", 0, "")
  /\ UNCHANGED <<engineVars, pressedKeys, visualVars, appVars, sinceFrame>>

OctaveUp == SetOctaveOffset(currentOctaveOffset + 1)
OctaveDown == SetOctaveOffset(currentOctaveOffset - 1)
ResetOctave == SetOctaveOffset(0)

(* A direct call midiToFrequency(midiNote, octaveOffset). *)
MidiToFrequency(midiNote, octaveOffset) ==
  /\ noteQuery' = [NoQuery EXCEPT !.fn = "midiToFrequency", !.midiNote = midiNote,
                                  !.octaveOffset = octaveOffset,
                                  !.value = midiToFrequency(midiNote, octaveOffset)]
  /\ lastOp' = Op("midiToFrequency", "", 0, "")
  /\ UNCHANGED <<engineVars, pressedKeys, currentOctaveOffset, visualVars, appVars,
                 sinceFrame>>

(* A direct call getNoteForKey(key). *)
GetNoteForKey(key) ==
  /\ noteQuery' = getNoteForKey(key, currentOctaveOffset)
  /\ lastOp' = Op("getNoteForKey", "", 0, "")
  /\ UNCHANGED <<engineVars, pressedKeys, currentOctaveOffset, visualVars, appVars,
                 sinceFrame>>

(* The callback the host has taken from its list to run it: render is
   entered with a callback due exactly when the host calls it. *)
RunningCallback == IF frameRequest = "due" THEN 1 ELSE 0

(* render(currentTime) at currentTime = now: updateVisualEntities, then
   renderEntities, then requestAnimationFrame unless an exception left render
   before. *)
renderSteps ==
  /\ LET U == updateVisualEntities(visualEntities, noteState, visualSettings.fadeLength)
     IN visualEntities' = U.visualEntities /\ noteState' = U.noteState
  /\ frame' =
       renderEntities([Engine EXCEPT !.noteState = noteState'], visualEntities',
                      visualSettings.fadeLength,
                      [EmptyFrame EXCEPT
                         !.removed =
                           {visualEntities[i].noteId : i \in DOMAIN visualEntities}
                             \ {visualEntities'[i].noteId : i \in DOMAIN visualEntities'},
                         !.missed = {k \in sinceFrame : ~Has(activeNotes, k)}])
  /\ frameRequest' = IF frame'.threw THEN "none" ELSE "pending"
  /\ frameCallbacks' =
       (frameCallbacks - RunningCallback) + (IF frame'.threw THEN 0 ELSE 1)
  /\ animationId' = IF frame'.threw THEN animationId ELSE 1
  /\ sinceFrame' = {}
  /\ UNCHANGED <<activeNotes, instanceCounter, nodes, timers, visualSettings>>

(* render(currentTime) called by the host or by startRenderLoop(). *)
render ==
  /\ renderSteps
  /\ lastOp' = Op("render", "", 0, IF frame'.threw THEN "threw" ELSE "painted")
  /\ UNCHANGED <<pressedKeys, currentOctaveOffset, appVars, noteQuery>>

(* The pending requestAnimationFrame callback runs. *)
RenderFrame ==
  /\ frameRequest = "due"
  /\ render

(* Variant: the animationId check is missing. *)
StartRenderLoopUnguarded == render

(* startRenderLoop() *)
StartRenderLoop ==
  IF animationId # Null
  THEN /\ lastOp' = Op("startRenderLoop", "", 0, "running")
       /\ UNCHANGED <<engineVars, pressedKeys, currentOctaveOffset, visualVars,
                      appVars, sinceFrame, noteQuery>>
  ELSE render

(* ------------------------------------------------------------------ main *)

(* Variant: isInitialized is set in a finally block. *)
InitializedAfterFailureFinally(initialized) == TRUE

(* catch (error) { console.error(...) }: isInitialized when init() has
   failed. *)
InitializedAfterFailure(initialized) == initialized

(* The steps of init() after await resumeAudioContext(): the wiring
   (initVisualEngine, initKeyboard, the UI, the octave shortcut listener),
   startRenderLoop(), then isInitialized = true unless startRenderLoop() threw
   (an exception of its first frame goes to the catch block of init). *)
InitBody ==
  /\ initRuns' = initRuns + 1
  /\ IF animationId # Null
     THEN /\ UNCHANGED <<engineVars, visualVars, sinceFrame>>
          /\ isInitialized' = TRUE
     ELSE /\ renderSteps
          /\ isInitialized' =
               IF frame'.threw THEN InitializedAfterFailure(isInitialized) ELSE TRUE

(* init() up to await resumeAudioContext(), and beyond it when the context is
   running (resumeAudioContext does not call resume(), and the steps after the
   await run before any other event). way names the listener that made the
   call. *)
InitCall(way) ==
  IF isInitialized
  THEN /\ lastOp' = Op(way, "", 0, "initialized")
       /\ UNCHANGED <<engineVars, visualVars, appVars, sinceFrame>>
  ELSE IF audioContext = "running"
  THEN /\ InitBody
       /\ lastOp' = Op(way, "", 0, IF isInitialized' THEN "ran" ELSE "failed")
       /\ UNCHANGED <<audioContext, initCalls>>
  ELSE /\ initCalls < MaxInitCalls
       /\ audioContext' = getAudioContext(audioContext)
       /\ initCalls' = initCalls + 1
       /\ lastOp' = Op(way, "", 0, "awaiting")
       /\ UNCHANGED <<engineVars, visualVars, isInitialized, initRuns, sinceFrame>>

(* init() when the constructor of the context throws in getAudioContext():
   resumeAudioContext() rejects and the catch block of init runs. *)
InitCallFails(way) ==
  /\ ~isInitialized
  /\ audioContext = NoContext
  /\ isInitialized' = InitializedAfterFailure(isInitialized)
  /\ lastOp' = Op(way, "", 0, "failed")
  /\ UNCHANGED <<engineVars, visualVars, audioContext, initCalls, initRuns, sinceFrame,
                 pressedKeys, currentOctaveOffset, noteQuery>>

(* The click listener of the start overlay, shown until init() hides it. *)
ClickStart ==
  /\ ~isInitialized
  /\ InitCall("click")
  /\ UNCHANGED <<pressedKeys, currentOctaveOffset, noteQuery>>

(* A keydown event: the listener of main.js calls init() unless
   isInitialized; handleKeyDown, wired by the steps of init() that also set
   isInitialized, handles the events that come after those steps. *)
KeyDownEvent(raw) ==
  IF isInitialized
  THEN HandleKeyDown(raw, FALSE)
  ELSE /\ initRuns = 0
       /\ InitCall("keydownEvent")
       /\ UNCHANGED <<pressedKeys, currentOctaveOffset, noteQuery>>

(* A keyup event: handleKeyUp, once wired. *)
KeyUpEvent(raw) ==
  /\ initRuns > 0
  /\ HandleKeyUp(raw)

(* The promise of ctx.resume() that the oldest suspended init() call awaits
   is fulfilled: the context runs, and the call goes on. *)
ResumeResolves ==
  /\ initCalls > 0
  /\ initCalls' = initCalls - 1
  /\ audioContext' = "running"
  /\ InitBody
  /\ lastOp' = Op("initResume", "", 0, IF isInitialized' THEN "ran" ELSE "failed")
  /\ UNCHANGED <<pressedKeys, currentOctaveOffset, noteQuery>>

(* The promise is rejected: the catch block of init runs. *)
ResumeRejects ==
  /\ initCalls > 0
  /\ initCalls' = initCalls - 1
  /\ isInitialized' = InitializedAfterFailure(isInitialized)
  /\ lastOp' = Op("initResume", "", 0, "failed")
  /\ UNCHANGED <<engineVars, visualVars, audioContext, initRuns, sinceFrame,
                 pressedKeys, currentOctaveOffset, noteQuery>>

(* The host starts a suspended context by itself. *)
ContextStarts ==
  /\ audioContext = "suspended"
  /\ audioContext' = "running"
  /\ lastOp' = Op("contextStarts", "", 0, "")
  /\ UNCHANGED <<engineVars, visualVars, isInitialized, initCalls, initRuns, sinceFrame,
                 pressedKeys, currentOctaveOffset, noteQuery>>

(* stopRenderLoop() *)
StopRenderLoop ==
  /\ animationId' = Null
  /\ frameRequest' = IF animationId # Null THEN "none" ELSE frameRequest
  /\ frameCallbacks' = IF animationId # Null /\ frameRequest # "none"
                       THEN frameCallbacks - 1 ELSE frameCallbacks
  /\ lastOp' = Op("stopRenderLoop", "", 0, IF animationId # Null THEN "stopped" ELSE "idle")
  /\ sinceFrame' = IF animationId # Null THEN {} ELSE sinceFrame
  /\ UNCHANGED <<engineVars, pressedKeys, currentOctaveOffset,
                 visualEntities, visualSettings, frame, appVars, noteQuery>>

(* updateVisualSettings({ fadeLength }) *)
UpdateVisualSettings(fadeLength) ==
  /\ visualSettings' =
       [visualSettings EXCEPT !.fadeLength = updateVisualSettingsFadeLength(fadeLength)]
  /\ lastOp' = Op("updateVisualSettings", "", 0, "")
  /\ UNCHANGED <<engineVars, pressedKeys, currentOctaveOffset,
                 visualEntities, animationId, frameRequest, frameCallbacks, frame,
                 appVars, sinceFrame, noteQuery>>

Next ==
  \/ \E k \in NoteIds, f \in Freqs : PlayNote(k, f)
  \/ \E k \in NoteIds : StopNote(k)
  \/ CleanupTimer
  \/ Tick

Spec == Init /\ [][Next]_vars

(* The engine driven through the keyboard handler only, at a fixed octave. *)
KbdNext ==
  \/ \E raw \in RawKeys, mod \in BOOLEAN : HandleKeyDown(raw, mod)
  \/ \E raw \in RawKeys : HandleKeyUp(raw)
  \/ ReleaseAllKeys
  \/ CleanupTimer
  \/ Tick

KbdSpec == Init /\ [][KbdNext]_vars

(* The keyboard handlers and the blur listener, in behaviours in which due
   timers run and time goes on. *)
KbdLiveNext ==
  \/ \E raw \in RawKeys :
       instanceCounter < MaxVisInstances /\ HandleKeyDown(raw, FALSE)
  \/ \E raw \in RawKeys : HandleKeyUp(raw)
  \/ ReleaseAllKeys
  \/ CleanupTimer
  \/ Tick

KbdLiveSpec == Init /\ [][KbdLiveNext]_vars /\ WF_vars(CleanupTimer) /\ WF_vars(Tick)

(* The engine driven at one frequency, in behaviours in which due timer
   callbacks run and time passes: the event loop runs a due callback, and the
   clock does not stop. *)
LiveFreq == CHOOSE f \in Freqs : \A g \in Freqs : g <= f

LiveNext ==
  \/ \E k \in NoteIds : PlayNote(k, LiveFreq)
  \/ \E k \in NoteIds : StopNote(k)
  \/ CleanupTimer
  \/ Tick

LiveSpec == Init /\ [][LiveNext]_vars /\ WF_vars(CleanupTimer) /\ WF_vars(Tick)

(* The engine under the render loop with the default settings: two
   identities, each played at one frequency. *)
VisNext ==
  \/ \E note \in VisNotes :
       instanceCounter < MaxVisInstances /\ PlayNote(note[1], note[2])
  \/ \E k \in NoteIds : StopNote(k)
  \/ CleanupTimer
  \/ Tick
  \/ StartRenderLoop
  \/ RenderFrame

VisSpec == Init /\ [][VisNext]_vars

(* One identity under the render loop while the fade length is
   reconfigured, in behaviours in which the event loop goes on. *)
FadeNext ==
  \/ \E k \in FadeNoteIds, f \in VisFreqs :
       instanceCounter < MaxVisInstances /\ PlayNote(k, f)
  \/ \E k \in FadeNoteIds : StopNote(k)
  \/ CleanupTimer
  \/ Tick
  \/ StartRenderLoop
  \/ RenderFrame
  \/ \E v \in FadeLengthInputs : UpdateVisualSettings(v)

(* The engine driven at one frequency, directly and through one key, when
   the creation of the sound resource can fail. *)
FailKeys == {"n"}

FailNext ==
  \/ \E k \in NoteIds : PlayNote(k, LiveFreq)
  \/ \E k \in NoteIds, stage \in FailStages : PlayNoteThrows(k, LiveFreq, stage)
  \/ \E k \in NoteIds : StopNote(k)
  \/ \E raw \in FailKeys : HandleKeyDown(raw, FALSE)
  \/ \E raw \in FailKeys, stage \in FailStages : HandleKeyDownThrows(raw, stage)
  \/ \E raw \in FailKeys : HandleKeyUp(raw)
  \/ CleanupTimer
  \/ Tick

FailSpec == Init /\ [][FailNext]_vars

(* The application from page load: init() on the first gestures, then one
   key played through the wired keyboard handler under the render loop. *)
InitKeys == {"n"}

InitNext ==
  \/ ClickStart
  \/ \E way \in {"click", "keydownEvent"} : InitCallFails(way)
  \/ \E raw \in InitKeys :
       (isInitialized => instanceCounter < MaxVisInstances) /\ KeyDownEvent(raw)
  \/ \E raw \in InitKeys : KeyUpEvent(raw)
  \/ ResumeResolves
  \/ ResumeRejects
  \/ ContextStarts
  \/ CleanupTimer
  \/ Tick
  \/ RenderFrame

InitSpec == Init /\ [][InitNext]_vars

(* The settings called with any fade length while one identity is played,
   before the render loop is started. *)
SettingsNext ==
  \/ \E v \in ClampInputs : UpdateVisualSettings(v)
  \/ \E k \in FadeNoteIds :
       instanceCounter < MaxVisInstances /\ PlayNote(k, LiveFreq)
  \/ \E k \in FadeNoteIds : StopNote(k)
  \/ CleanupTimer
  \/ Tick

SettingsSpec == Init /\ [][SettingsNext]_vars

(* noteMap.js called directly: the octave offset moved, frequencies and
   note data asked for. *)
OctNext ==
  \/ OctaveUp
  \/ OctaveDown
  \/ ResetOctave
  \/ \E offset \in OffsetInputs : SetOctaveOffset(offset)
  \/ \E m \in MidiInputs, o \in MIN_OCTAVE_OFFSET..MAX_OCTAVE_OFFSET :
       MidiToFrequency(m, o)
  \/ \E key \in RawKeys : GetNoteForKey(key)

OctSpec == Init /\ [][OctNext]_vars

(* One identity under a render loop that is started and stopped. *)
LoopNext ==
  \/ \E k \in FadeNoteIds, f \in VisFreqs :
       instanceCounter < MaxVisInstances /\ PlayNote(k, f)
  \/ \E k \in FadeNoteIds : StopNote(k)
  \/ CleanupTimer
  \/ Tick
  \/ StartRenderLoop
  \/ StopRenderLoop
  \/ RenderFrame

LoopSpec == Init /\ [][LoopNext]_vars

(* One identity under the render loop on a page that can be hidden: time
   passes and timers run without a frame. *)
HiddenNext ==
  \/ \E k \in FadeNoteIds, f \in VisFreqs :
       instanceCounter < MaxVisInstances /\ PlayNote(k, f)
  \/ \E k \in FadeNoteIds : StopNote(k)
  \/ CleanupTimer
  \/ Tick
  \/ TickHidden
  \/ StartRenderLoop
  \/ RenderFrame

HiddenSpec == Init /\ [][HiddenNext]_vars

(* The event loop: a due callback (timer, animation frame) runs, or else
   time passes. *)
EventLoop == CleanupTimer \/ RenderFrame \/ Tick

FadeSpec == Init /\ [][FadeNext]_vars /\ WF_vars(EventLoop)

(* ------------------------------------------------------- derived notions *)
Live(k) == Has(activeNotes, k)
Releasing(k) == Live(k) /\ activeNotes[k].isReleasing

(* The phase of identity k, as getNoteGain distinguishes it. *)
Phase(k) ==
  IF ~Live(k) THEN "None"
  ELSE IF activeNotes[k].isReleasing THEN "Releasing"
  ELSE IF Attacking(k) THEN "Attacking"
  ELSE "Sustaining"

(* The attack/sustain curve of an instance started at startTime. *)
AttackSustain(startTime) ==
  IF now - startTime < ATTACK_TIME
  THEN ((now - startTime) * MAX_GAIN) \div ATTACK_TIME
  ELSE MAX_GAIN

ConnectedPairs(k) ==
  {n \in DOMAIN nodes : nodes[n].noteId = k /\ nodes[n].gainConnected}

PendingTimers(id) == {i \in DOMAIN timers : timers[i].instanceId = id}

(* ---------------------------------------------------------------- claims *)

(* C1: when the cleanup callback of an instance of identity k runs after k
   has been retriggered (the occupant of k has another instanceId), it
   removes nothing: activeNotes, noteState.active and instanceCounter are
   exactly as before the callback. *)
C1_StaleCleanupRemovesNothing ==
  [][ ( /\ timers # <<>>
        /\ CleanupTimer
        /\ Has(activeNotes, Head(timers).noteId)
        /\ activeNotes[Head(timers).noteId].instanceId # Head(timers).instanceId )
      => ( /\ activeNotes' = activeNotes
           /\ noteState' = noteState
           /\ instanceCounter' = instanceCounter ) ]_vars

(* A stale callback has run on a live identity while a second stale callback
   for the same identity is still pending: two stop/retrigger rounds. *)
C1_Witness ==
  /\ lastOp.op = "cleanup" /\ lastOp.outcome = "stale"
  /\ Has(activeNotes, lastOp.noteId)
  /\ \E i \in DOMAIN timers :
       /\ timers[i].noteId = lastOp.noteId
       /\ timers[i].instanceId # activeNotes[lastOp.noteId].instanceId

(* C2: for each identity at most one oscillator/gain pair created for it is
   connected to the destination; a retrigger leaves the old pair stopped and
   disconnected and only the new pair connected. *)
C2_OneConnectedPair ==
  /\ [](\A n \in DOMAIN nodes : Cardinality(ConnectedPairs(nodes[n].noteId)) <= 1)
  /\ [][ \A k \in NoteIds, f \in Freqs :
           (PlayNote(k, f) /\ Releasing(k))
           => LET old == activeNotes[k].node
              IN /\ Has(nodes', old)
                 /\ nodes'[old].stop = "immediate"
                 /\ ~nodes'[old].oscConnected
                 /\ ~nodes'[old].gainConnected
                 /\ ConnectedPairs(k)' = {activeNotes'[k].node}
                 /\ activeNotes'[k].node # old ]_vars

C2_Witness ==
  /\ lastOp.op = "playNote" /\ lastOp.outcome = "retrigger"
  /\ \E n1, n2 \in DOMAIN nodes :
       /\ nodes[n1].noteId = lastOp.noteId /\ nodes[n2].noteId = lastOp.noteId
       /\ ~nodes[n1].gainConnected /\ nodes[n1].stop = "immediate"
       /\ nodes[n2].gainConnected /\ activeNotes[lastOp.noteId].node = n2

(* C3: playNote on a releasing identity replaces the instance in the same
   step: the new instanceId is strictly greater, isReleasing is false, the
   visual entry has no releasing flag and no releaseStartTime; and whenever
   an identity is live and not releasing, getNoteGain follows the attack /
   sustain curve of the instance that occupies it. *)
C3_RetriggerSupersedes ==
  [][ /\ \A k \in NoteIds, f \in Freqs :
           (PlayNote(k, f) /\ Releasing(k))
           => /\ Has(activeNotes', k) /\ Has(noteState', k)
              /\ activeNotes'[k].instanceId > activeNotes[k].instanceId
              /\ ~activeNotes'[k].isReleasing
              /\ activeNotes'[k].frequency = f
              /\ noteState'[k].instanceId = activeNotes'[k].instanceId
              /\ ~noteState'[k].releasing
              /\ noteState'[k].releaseStartTime = Undefined
              /\ noteState'[k].startTime = now
      /\ \A k \in NoteIds :
           (Live(k)' /\ ~Releasing(k)')
           => /\ Has(noteState', k)
              /\ noteState'[k].instanceId = activeNotes'[k].instanceId
              /\ getNoteGain(k)' = AttackSustain(noteState[k].startTime)' ]_vars

(* A retriggered identity sampled at the start of its new attack ramp while
   the cleanup of the superseded instance is still pending. *)
C3_Witness ==
  /\ lastOp.op = "playNote" /\ lastOp.outcome = "retrigger"
  /\ getNoteGain(lastOp.noteId) = 0
  /\ \E i \in DOMAIN timers :
       /\ timers[i].noteId = lastOp.noteId
       /\ timers[i].instanceId < activeNotes[lastOp.noteId].instanceId

(* C4: playNote on an identity that is live and not releasing changes
   nothing in the engine: same instance, frequency, startTime, counter, and
   no new oscillator/gain pair. *)
C4_NoRetriggerWhileSounding ==
  [][ \A k \in NoteIds, f \in Freqs :
        (PlayNote(k, f) /\ Live(k) /\ ~Releasing(k))
        => UNCHANGED engineVars ]_vars

C4_Witness ==
  /\ lastOp.op = "playNote" /\ lastOp.outcome = "ignored"
  /\ Live(lastOp.noteId) /\ ~Releasing(lastOp.noteId)
  /\ activeNotes[lastOp.noteId].frequency # lastOp.frequency

(* C5: stopNote on a releasing instance changes nothing in the engine, and
   every instance has its decay and its cleanup timer scheduled at most
   once. *)
C5_IdempotentStop ==
  /\ [][ \A k \in NoteIds : (StopNote(k) /\ Releasing(k)) => UNCHANGED engineVars ]_vars
  /\ [](\A id \in 1..instanceCounter : Cardinality(PendingTimers(id)) <= 1)
  /\ [](\A n \in DOMAIN nodes : nodes[n].decays <= 1)

C5_Witness ==
  /\ lastOp.op = "stopNote" /\ lastOp.outcome = "already"
  /\ Releasing(lastOp.noteId)
  /\ Cardinality(PendingTimers(activeNotes[lastOp.noteId].instanceId)) = 1

(* C6: a releasing instance is eventually removed by its cleanup callback
   unless a playNote replaces it first; an identity enters the active set
   only through playNote, and while it is absent getActiveNoteIds does not
   list it and getNoteGain returns 0. *)
C6_ReleaseEndsInRemoval ==
  /\ \A k \in NoteIds :
       Releasing(k)
         ~> ( \/ ~Live(k) /\ k \notin getActiveNoteIds /\ getNoteGain(k) = 0
              \/ Live(k) /\ ~Releasing(k) )
  /\ [][ \A k \in NoteIds :
           /\ (timers # <<>> /\ CleanupTimer /\ Live(k)
                 /\ Head(timers).noteId = k
                 /\ Head(timers).instanceId = activeNotes[k].instanceId)
              => (~Live(k)' /\ k \notin getActiveNoteIds')
           /\ (k \notin getActiveNoteIds /\ k \in getActiveNoteIds')
              => (lastOp'.op = "playNote" /\ lastOp'.noteId = k)
           /\ ~Live(k)' => (k \notin getActiveNoteIds' /\ getNoteGain(k)' = 0) ]_vars

C6_Witness ==
  /\ lastOp.op = "cleanup" /\ lastOp.outcome = "removed"
  /\ ~Live(lastOp.noteId)
  /\ lastOp.noteId \notin getActiveNoteIds
  /\ getNoteGain(lastOp.noteId) = 0

(* C7 as stated: the only phase changes are None->Attacking,
   Attacking->Sustaining, Sustaining->Releasing, Releasing->None and
   Releasing->Attacking. *)
C7_StatedTransitions ==
  {<<"None", "Attacking">>, <<"Attacking", "Sustaining">>,
   <<"Sustaining", "Releasing">>, <<"Releasing", "None">>,
   <<"Releasing", "Attacking">>}

C7_Original ==
  [][ \A k \in NoteIds :
        Phase(k)' # Phase(k) => <<Phase(k), Phase(k)'>> \in C7_StatedTransitions ]_vars

(* C7 (amended): the phase changes are the five stated ones and
   Attacking->Releasing (stopNote during the attack ramp); no step takes an
   identity from Attacking or Sustaining to None. *)
C7_PhaseTransitions ==
  [][ \A k \in NoteIds :
        Phase(k)' # Phase(k)
        => <<Phase(k), Phase(k)'>> \in
             C7_StatedTransitions \cup {<<"Attacking", "Releasing">>} ]_vars

(* stopNote has released an instance inside its attack ramp. *)
C7_Witness ==
  /\ lastOp.op = "stopNote" /\ lastOp.outcome = "released"
  /\ Has(noteState, lastOp.noteId)
  /\ noteState[lastOp.noteId].releaseStartTime - noteState[lastOp.noteId].startTime
       < ATTACK_TIME

(* C8: instance ids are handed out in strictly increasing order: every id
   in use (live instance, pending timer, existing pair) is at most
   instanceCounter, an instance that appears in a step gets an id above the
   counter before the step, and no two pairs or live instances share an id. *)
C8_InstanceIdsIncrease ==
  /\ [](/\ \A k \in DOMAIN activeNotes : activeNotes[k].instanceId <= instanceCounter
        /\ \A i \in DOMAIN timers : timers[i].instanceId <= instanceCounter
        /\ \A n \in DOMAIN nodes : nodes[n].instanceId <= instanceCounter
        /\ \A k1, k2 \in DOMAIN activeNotes :
             k1 # k2 => activeNotes[k1].instanceId # activeNotes[k2].instanceId
        /\ \A n1, n2 \in DOMAIN nodes :
             n1 # n2 => nodes[n1].instanceId # nodes[n2].instanceId)
  /\ [][ /\ instanceCounter' >= instanceCounter
         /\ \A k \in DOMAIN activeNotes' :
              (~Has(activeNotes, k) \/ activeNotes[k].node # activeNotes'[k].node)
              => /\ activeNotes'[k].instanceId > instanceCounter
                 /\ \A i \in DOMAIN timers' :
                      timers'[i].instanceId < activeNotes'[k].instanceId ]_vars

(* Two identities are live with different ids while a timer holds the id of
   an instance superseded by a later one. *)
C8_Witness ==
  /\ Cardinality(DOMAIN activeNotes) = 2
  /\ \E i \in DOMAIN timers :
       /\ Has(activeNotes, timers[i].noteId)
       /\ timers[i].instanceId < activeNotes[timers[i].noteId].instanceId

(* C9: stopNote on an identity with no live instance changes nothing in the
   engine (no timer, no map change), and getNoteGain returns 0 for it. *)
C9_UnknownIdentityNoOp ==
  /\ [][ \A k \in NoteIds : (StopNote(k) /\ ~Live(k)) => UNCHANGED engineVars ]_vars
  /\ [](\A k \in NoteIds : ~Live(k) => getNoteGain(k) = 0)

C9_Witness ==
  /\ lastOp.op = "stopNote" /\ lastOp.outcome = "unknown"
  /\ ~Live(lastOp.noteId)
  /\ getNoteGain(lastOp.noteId) = 0
  /\ DOMAIN activeNotes # {}

(* C10 as stated: when the blur handler returns, no identity remains in the
   engine's active set. *)
C10_Original ==
  lastOp.op = "blur" => (DOMAIN activeNotes = {} /\ DOMAIN noteState = {})

(* C10 (amended): the blur handler calls stopNote for every pressed key:
   when it returns pressedKeys is empty, no identity has left the active
   set, and every pressed identity that is live is releasing, its pair still
   connected and its cleanup timer pending. *)
C10_BlurReleasesPressedKeys ==
  [][ ReleaseAllKeys
      => /\ pressedKeys' = <<>>
         /\ DOMAIN activeNotes' = DOMAIN activeNotes
         /\ DOMAIN noteState' = DOMAIN noteState
         /\ \A i \in DOMAIN pressedKeys :
              Live(pressedKeys[i])
              => LET k == pressedKeys[i]
                 IN /\ activeNotes'[k].isReleasing
                    /\ activeNotes'[k].instanceId = activeNotes[k].instanceId
                    /\ nodes'[activeNotes'[k].node].gainConnected
                    /\ Cardinality({j \in DOMAIN timers' :
                          timers'[j].instanceId = activeNotes[k].instanceId}) = 1 ]_vars

(* Blur with two keys held: both identities are still in the active set. *)
C10_Witness ==
  /\ lastOp.op = "blur" /\ lastOp.outcome = "released"
  /\ pressedKeys = <<>>
  /\ Cardinality(DOMAIN activeNotes) = 2
  /\ \A k \in DOMAIN activeNotes : activeNotes[k].isReleasing

(* C11: a render tick (updateVisualEntities, then renderEntities with every
   getNoteGain call it makes) leaves the lifecycle state as it was:
   activeNotes, noteState.active with every field of every instance,
   instanceCounter, the pairs and the timers; and getNoteGain of every
   identity is the same after the tick as before it. *)
C11_RenderLeavesLifecycleUnchanged ==
  [][ lastOp'.op = "render"
      => /\ UNCHANGED engineVars
         /\ \A k \in NoteIds : getNoteGain(k)' = getNoteGain(k) ]_vars

(* A frame has sampled two entities, one of an identity that is being
   released, while a cleanup timer is pending. *)
C11_Witness ==
  /\ lastOp.op = "render"
  /\ Cardinality(DOMAIN frame.opacity) = 2
  /\ \E k \in DOMAIN noteState : noteState[k].releasing /\ Has(frame.opacity, k)
  /\ \E k \in DOMAIN noteState : ~noteState[k].releasing /\ Has(frame.opacity, k)
  /\ timers # <<>>

(* C12 as stated: for a tone stopped at t1 and not retriggered, a frame at
   or after t1 + fadeLength leaves no entity of its identity. *)
C12_Original ==
  [][ \A k \in FadeNoteIds :
        ( /\ lastOp'.op = "render"
          /\ HasEntity(visualEntities, k)
          /\ Releasing(k) /\ Has(noteState, k)
          /\ now - noteState[k].releaseStartTime >= visualSettings.fadeLength )
        => ~HasEntity(visualEntities', k) ]_vars

(* C12 (amended): the entity follows the active set, not the key release.
   While the identity is in the active set (until the cleanup callback,
   RELEASE_TIME + CLEANUP_MARGIN after t1) every frame leaves an entity for
   it that is not fading, unless an entity of an earlier tone was still
   fading; an entity starts to fade only in a frame that finds its identity
   out of the active set, with fadeStartTime that frame's time; it is
   destroyed only by a frame that finds it fading for more than fadeLength;
   and no frame leaves an entity that has been fading for more than
   fadeLength. *)
C12_EntityFollowsActiveSet ==
  /\ [][ \A k \in FadeNoteIds :
           /\ ( /\ lastOp'.op = "render" /\ Has(noteState, k)
                /\ ~(HasEntity(visualEntities, k) /\ EntityOf(visualEntities, k).fading) )
              => ( /\ HasEntity(visualEntities', k)
                   /\ ~EntityOf(visualEntities', k).fading )
           /\ ( /\ HasEntity(visualEntities, k) /\ ~EntityOf(visualEntities, k).fading
                /\ HasEntity(visualEntities', k) /\ EntityOf(visualEntities', k).fading )
              => ( /\ lastOp'.op = "render"
                   /\ ~Has(noteState, k)
                   /\ EntityOf(visualEntities', k).fadeStartTime = now )
           /\ (HasEntity(visualEntities, k) /\ ~HasEntity(visualEntities', k))
              => ( /\ lastOp'.op = "render"
                   /\ EntityOf(visualEntities, k).fading
                   /\ now - EntityOf(visualEntities, k).fadeStartTime
                        > visualSettings.fadeLength ) ]_vars
  /\ [](lastOp.op = "render"
         => \A i \in DOMAIN visualEntities :
              visualEntities[i].fading
              => now - visualEntities[i].fadeStartTime <= visualSettings.fadeLength)

(* A frame at or after t1 + fadeLength has left the entity of a tone that is
   still being released, not fading. *)
C12_Witness ==
  \E k \in FadeNoteIds :
    /\ lastOp.op = "render"
    /\ Releasing(k) /\ Has(noteState, k)
    /\ now - noteState[k].releaseStartTime >= visualSettings.fadeLength
    /\ HasEntity(visualEntities, k)
    /\ ~EntityOf(visualEntities, k).fading

(* C13: a failure while painting one entity does not abort the frame for the
   other entities and does not stop future frames: when a frame returns,
   every entity with a positive opacity whose own painting does not fail has
   been painted, and the next animation frame is requested. *)
C13_FrameFailureIsolated ==
  lastOp.op = "render"
  => /\ frameRequest = "pending"
     /\ \A i \in DOMAIN visualEntities :
          ( /\ Opacity(Engine, visualEntities[i], visualSettings.fadeLength) > 0
            /\ ~PaintThrows(visualEntities[i]) )
          => visualEntities[i].noteId \in frame.painted

(* The instants ahead at which an instance is sampled: up to the cleanup. *)
SampleAhead == 0..(RELEASE_TIME + CLEANUP_MARGIN)

(* C14: sampled at any instant and at the next one, getNoteGain of an instance
   that is not releasing does not decrease (the attack ramp, then the
   sustain level); that of a releasing instance does not increase, is
   strictly positive for as long as the instance is live, and is the 0.001
   floor once the release duration has elapsed. *)
C14_EnvelopeMonotone ==
  \A k \in DOMAIN activeNotes :
    \A d \in SampleAhead :
      LET g1 == getNoteGainAt(Engine, k, now + d)
          g2 == getNoteGainAt(Engine, k, now + d + 1)
      IN IF Releasing(k)
         THEN /\ g1 >= g2
              /\ g1 > 0 /\ g2 > 0
              /\ (now + d - noteState[k].releaseStartTime >= RELEASE_TIME)
                   => g1 = GAIN_FLOOR
         ELSE g1 <= g2

(* One instance is in the middle of its release while another is at the
   start of its attack ramp. *)
C14_Witness ==
  \E k, j \in DOMAIN activeNotes :
    /\ Releasing(k)
    /\ getNoteGain(k) > GAIN_FLOOR /\ getNoteGain(k) < MAX_GAIN
    /\ ~Releasing(j) /\ Attacking(j)
    /\ getNoteGain(j) = 0
    /\ getNoteGainAt(Engine, j, now + 1) > 0
    /\ getNoteGainAt(Engine, j, now + 1) < MAX_GAIN

(* C15: getNoteGain is 0 for an identity without a live instance and lies
   between 0 and MAX_GAIN, hence in [0,1], for a live one, in every phase and
   at every elapsed time. *)
C15_GainInRange ==
  \A k \in NoteIds :
    \A d \in SampleAhead :
      LET g == getNoteGainAt(Engine, k, now + d)
      IN /\ ~Live(k) => g = 0
         /\ 0 <= g /\ g <= MAX_GAIN /\ g <= OPACITY_ONE

(* One identity has been removed by its cleanup and reads 0, the other is
   live at the sustain level. *)
C15_Witness ==
  /\ lastOp.op = "cleanup" /\ lastOp.outcome = "removed"
  /\ ~Live(lastOp.noteId) /\ getNoteGain(lastOp.noteId) = 0
  /\ \E j \in DOMAIN activeNotes : ~Releasing(j) /\ getNoteGain(j) = MAX_GAIN

(* The pairs of instance id that are still connected. *)
ConnectedPairsOf(id) ==
  {n \in DOMAIN nodes :
     nodes[n].instanceId = id /\ (nodes[n].oscConnected \/ nodes[n].gainConnected)}

(* C16: every pair released by stopNote is eventually disconnected; the
   cleanup callback leaves the pair it captured disconnected whether or not
   its instanceId is still that of the identity's occupant, and it leaves the
   pair of every newer instance as it was. *)
C16_ReleasedPairsDisconnected ==
  /\ \A id \in 1..MaxInstances :
       (\E n \in ConnectedPairsOf(id) : nodes[n].stop = "scheduled")
         ~> (ConnectedPairsOf(id) = {})
  /\ [][ (timers # <<>> /\ CleanupTimer)
         => LET t == Head(timers)
            IN /\ Has(nodes', t.node)
                    => (~nodes'[t.node].oscConnected /\ ~nodes'[t.node].gainConnected)
               /\ \A n \in DOMAIN nodes' :
                    nodes'[n].instanceId = t.instanceId
                    => (~nodes'[n].oscConnected /\ ~nodes'[n].gainConnected)
               /\ \A k \in DOMAIN activeNotes' :
                    activeNotes'[k].instanceId # t.instanceId
                    => /\ Has(nodes', activeNotes'[k].node)
                       /\ nodes'[activeNotes'[k].node] = nodes[activeNotes[k].node] ]_vars

(* A stale callback has run and the pair of the newer instance of its
   identity is still connected. *)
C16_Witness ==
  /\ lastOp.op = "cleanup" /\ lastOp.outcome = "stale"
  /\ Live(lastOp.noteId)
  /\ nodes[activeNotes[lastOp.noteId].node].gainConnected
  /\ nodes[activeNotes[lastOp.noteId].node].oscConnected
  /\ ConnectedPairs(lastOp.noteId) = {activeNotes[lastOp.noteId].node}

(* C17: while a note key is held (from its keydown to the next keyup of the
   key, or blur) a further keydown of it does not call playNote and changes
   nothing; the key stays held until a keyup of it or a blur; a keydown of a
   note key that is not held, without modifier, calls playNote once and
   leaves the key held. *)
C17_OnePlayPerKeyPress ==
  [][ /\ (lastOp'.op = "keydown" /\ SeqHas(pressedKeys, lastOp'.noteId))
         => ( /\ lastOp'.outcome # "played"
              /\ UNCHANGED <<engineVars, pressedKeys>> )
      /\ \A k \in NoteIds :
           (SeqHas(pressedKeys, k) /\ ~SeqHas(pressedKeys', k))
           => ( \/ lastOp'.op = "keyup" /\ lastOp'.noteId = k
                \/ lastOp'.op = "blur" )
      /\ ( /\ lastOp'.op = "keydown" /\ lastOp'.outcome # "modifier"
           /\ isNoteKey(lastOp'.noteId)
           /\ ~SeqHas(pressedKeys, lastOp'.noteId) )
         => ( /\ lastOp'.outcome = "played"
              /\ SeqHas(pressedKeys', lastOp'.noteId)
              /\ activeNotes' =
                   playNote(Engine, lastOp'.noteId,
                            getNoteForKeyFrequency(lastOp'.noteId)).activeNotes
              /\ instanceCounter' <= instanceCounter + 1
              /\ Has(activeNotes', lastOp'.noteId)
              /\ ~activeNotes'[lastOp'.noteId].isReleasing ) ]_vars

(* A key that was played, released and played again is held, and a repeated
   keydown of it has just been ignored. *)
C17_Witness ==
  /\ lastOp.op = "keydown" /\ lastOp.outcome = "held"
  /\ SeqHas(pressedKeys, lastOp.noteId)
  /\ Live(lastOp.noteId) /\ ~Releasing(lastOp.noteId)
  /\ activeNotes[lastOp.noteId].instanceId >= 3

(* C18: a frame at time now turns every entity whose identity is not in the
   active set and that is not fading into a fading one with fadeStartTime =
   now; an entity that is fading stays fading and keeps its fadeStartTime in
   every later frame and under every other handler, whether or not its
   identity is active again (the clock only ages it). *)
C18_FadingStartsOnce ==
  [][ \A i \in DOMAIN visualEntities :
        LET entity == visualEntities[i]
            k == entity.noteId
        IN /\ (lastOp'.op = "render" /\ ~Has(noteState, k) /\ ~entity.fading)
              => ( /\ HasEntity(visualEntities', k)
                   /\ EntityOf(visualEntities', k).fading
                   /\ EntityOf(visualEntities', k).fadeStartTime = now )
           /\ (entity.fading /\ HasEntity(visualEntities', k))
              => ( /\ EntityOf(visualEntities', k).fading
                   /\ EntityOf(visualEntities', k).fadeStartTime =
                        IF lastOp'.op = "tick"
                        THEN Shift(entity.fadeStartTime, TickStep, FadeHorizon)
                        ELSE entity.fadeStartTime ) ]_vars

(* A frame has kept the fadeStartTime of an entity that an earlier frame
   marked fading and whose identity is in the active set again. *)
C18_Witness ==
  /\ lastOp.op = "render"
  /\ \E i \in DOMAIN visualEntities :
       /\ visualEntities[i].fading
       /\ visualEntities[i].fadeStartTime < now
       /\ Has(noteState, visualEntities[i].noteId)
       /\ Has(frame.opacity, visualEntities[i].noteId)

(* C19: a frame destroys every entity that has been fading for more than the
   configured fadeLength and no other entity: an entity disappears only in
   such a frame, so never before its fade has run out and never while it is
   not fading; and while the render loop keeps running, every fading entity
   is eventually destroyed. *)
C19_FadedEntitiesDestroyed ==
  /\ [][ \A i \in DOMAIN visualEntities :
           LET entity == visualEntities[i]
               k == entity.noteId
               expired == /\ entity.fading
                          /\ now - entity.fadeStartTime > visualSettings.fadeLength
           IN /\ (lastOp'.op = "render" /\ expired) => ~HasEntity(visualEntities', k)
              /\ ~HasEntity(visualEntities', k) => (lastOp'.op = "render" /\ expired)
              /\ ~entity.fading => HasEntity(visualEntities', k) ]_vars
  /\ \A k \in FadeNoteIds :
       ( /\ HasEntity(visualEntities, k) /\ EntityOf(visualEntities, k).fading
         /\ frameRequest # "none" )
         ~> ( \/ ~HasEntity(visualEntities, k)
              \/ frameRequest = "none" )

(* A frame has destroyed an entity under a reconfigured fade length, and the
   loop goes on. *)
C19_Witness ==
  /\ lastOp.op = "render"
  /\ frame.removed # {}
  /\ \A k \in frame.removed : ~HasEntity(visualEntities, k)
  /\ visualSettings.fadeLength # DEFAULT_FADE_LENGTH
  /\ frameRequest = "pending"

(* C20 as stated: the opacity a frame computes for an entity is
   getNoteGain * 2, times (1 - fadeElapsed / fadeLength) for a fading entity
   with fadeLength the configured visualSettings.fadeLength, clamped to
   [0,1]. *)
C20_Original ==
  lastOp.op = "render"
  => \A i \in DOMAIN visualEntities :
       LET entity == visualEntities[i]
           amplified == getNoteGain(entity.noteId) * 2
           fadeElapsed == now - entity.fadeStartTime
           scaled == IF entity.fading
                     THEN (amplified * (visualSettings.fadeLength - fadeElapsed))
                            \div visualSettings.fadeLength
                     ELSE amplified
       IN Has(frame.opacity, entity.noteId)
          => frame.opacity[entity.noteId] = Max(0, Min(scaled, OPACITY_ONE))

(* C20 (amended): the fade factor runs over a fixed 500 ms, whatever the
   configured fadeLength: the opacity is getNoteGain * 2, times
   max(0, 1 - fadeElapsed / 500 ms) for a fading entity, capped at 1, hence
   in [0,1]; an entity whose opacity is <= 0 is not painted, and a frame that
   ends without exception has painted every other entity. *)
C20_OpacityFadesOverFixedSpan ==
  lastOp.op = "render"
  => \A i \in DOMAIN visualEntities :
       LET entity == visualEntities[i]
           amplified == getNoteGain(entity.noteId) * 2
           fadeElapsed == now - entity.fadeStartTime
           scaled == IF entity.fading
                     THEN (amplified * Max(0, 50 - fadeElapsed)) \div 50
                     ELSE amplified
       IN /\ ~frame.threw => Has(frame.opacity, entity.noteId)
          /\ Has(frame.opacity, entity.noteId)
             => /\ frame.opacity[entity.noteId] = Min(scaled, OPACITY_ONE)
                /\ frame.opacity[entity.noteId] >= 0
                /\ frame.opacity[entity.noteId] <= OPACITY_ONE
                /\ frame.opacity[entity.noteId] <= 0
                     => entity.noteId \notin frame.painted
                /\ (frame.opacity[entity.noteId] > 0 /\ ~frame.threw)
                     => entity.noteId \in frame.painted

(* A frame has painted a fading entity whose identity sounds again, under a
   fade length other than 500 ms. *)
C20_Witness ==
  /\ lastOp.op = "render"
  /\ visualSettings.fadeLength # FADE_RENDER_SPAN
  /\ \E i \in DOMAIN visualEntities :
       /\ visualEntities[i].fading
       /\ now - visualEntities[i].fadeStartTime > 0
       /\ getNoteGain(visualEntities[i].noteId) > 0
       /\ visualEntities[i].noteId \in frame.painted
       /\ frame.opacity[visualEntities[i].noteId] > 0

(* C21: the frequency, hue, baseRadius and speed of an entity are set when a
   frame creates it, from the frequency its identity's tone has at that
   frame (A4: hue 110.40, base radius 51.25 px, speed 1), and no later step
   changes them for as long as the entity exists, whatever happens to the
   tone of its identity (released, replaced by a tone of another frequency,
   removed). *)
C21_StaticFieldsSetOnce ==
  [][ /\ \A i \in DOMAIN visualEntities :
           LET entity == visualEntities[i]
               k == entity.noteId
           IN HasEntity(visualEntities', k)
              => /\ EntityOf(visualEntities', k).frequency = entity.frequency
                 /\ EntityOf(visualEntities', k).hue = entity.hue
                 /\ EntityOf(visualEntities', k).baseRadius = entity.baseRadius
                 /\ EntityOf(visualEntities', k).speed = entity.speed
      /\ \A k \in NoteIds :
           (~HasEntity(visualEntities, k) /\ HasEntity(visualEntities', k))
           => LET created == EntityOf(visualEntities', k)
              IN /\ lastOp'.op = "render"
                 /\ Has(noteState, k)
                 /\ created.frequency = noteState[k].frequency
                 /\ created.hue = frequencyToHue(noteState[k].frequency)
                 /\ created.baseRadius = frequencyToRadius(noteState[k].frequency)
                 /\ created.speed = frequencyToSpeed(noteState[k].frequency)
                 /\ created.frequency = 4400
                      => ( /\ created.hue = 11040
                           /\ created.baseRadius = 5125
                           /\ created.speed = 1000 ) ]_vars

(* A frame has kept the entity created for a 440 Hz tone as it was, while its
   identity sounds at another frequency. *)
C21_Witness ==
  /\ lastOp.op = "render"
  /\ \E i \in DOMAIN visualEntities :
       LET entity == visualEntities[i]
       IN /\ Has(noteState, entity.noteId)
          /\ ~noteState[entity.noteId].releasing
          /\ noteState[entity.noteId].frequency # entity.frequency
          /\ entity.frequency = 4400 /\ entity.hue = 11040

(* C22: a tone that is started, released and cleaned up between two
   consecutive frames never appears: the later frame, finding the identity
   without a live instance and without an entity, creates no entity for it,
   samples and paints nothing for it, and leaves no entity of it; the frame
   raises an error only when the painting of an entity that exists does; and
   an entity is created only by a frame that finds its identity in the
   active set. *)
C22_UnseenToneNeverAppears ==
  [][ \A k \in NoteIds :
        /\ ( /\ lastOp'.op = "render"
             /\ k \in sinceFrame /\ ~Live(k)
             /\ ~HasEntity(visualEntities, k) )
           => ( /\ ~HasEntity(visualEntities', k)
                /\ ~Has(frame'.opacity, k)
                /\ k \notin frame'.painted
                /\ k \notin frame'.removed
                /\ frame'.threw
                     => \E i \in DOMAIN visualEntities' : PaintThrows(visualEntities'[i]) )
        /\ (~HasEntity(visualEntities, k) /\ HasEntity(visualEntities', k))
           => (lastOp'.op = "render" /\ Live(k) /\ Has(noteState, k)) ]_vars

(* A frame has run after a tone lived and died since the frame before it:
   nothing of the tone is left, and the loop goes on. *)
C22_Witness ==
  /\ lastOp.op = "render"
  /\ frame.missed # {}
  /\ \A k \in frame.missed : ~HasEntity(visualEntities, k) /\ ~Live(k)
  /\ visualEntities = <<>>
  /\ ~frame.threw
  /\ frameRequest = "pending"

(* C23: when the creation of the sound resource throws inside playNote, the
   exception leaves playNote and, for a keydown, the handler; afterwards the
   identity has no instance in activeNotes or noteState.active, no instance id
   has been used and no pair has been connected; and a playNote for an
   identity without a sounding instance that does not throw leaves it with a
   live instance in its attack, which is possible right after a failure. *)
C23_PlayFailureLeavesNoInstance ==
  /\ [][ /\ lastOp'.outcome = "threw"
            => ( /\ ~Has(activeNotes', lastOp'.noteId)
                 /\ ~Has(noteState', lastOp'.noteId)
                 /\ instanceCounter' = instanceCounter
                 /\ \A n \in DOMAIN nodes' :
                      nodes'[n].gainConnected
                      => (Has(nodes, n) /\ nodes[n].gainConnected)
                 /\ \A k \in NoteIds \ {lastOp'.noteId} :
                      /\ Has(activeNotes', k) = Has(activeNotes, k)
                      /\ Has(activeNotes, k) => activeNotes'[k] = activeNotes[k] )
         /\ \A k \in NoteIds :
              ( /\ lastOp'.op = "playNote" /\ lastOp'.noteId = k
                /\ lastOp'.outcome \in {"fresh", "retrigger"} )
              => ( /\ Has(activeNotes', k) /\ ~activeNotes'[k].isReleasing
                   /\ Has(noteState', k) /\ noteState'[k].startTime = now
                   /\ nodes'[activeNotes'[k].node].gainConnected ) ]_vars
  /\ []( (lastOp.outcome = "threw" /\ instanceCounter < MaxInstances)
          => ENABLED ( /\ PlayNote(lastOp.noteId, LiveFreq)
                       /\ Has(activeNotes', lastOp.noteId) ) )

(* A keydown has thrown while the instance of its key was releasing: the
   instance is torn down, its cleanup timer is still pending, the key is
   tracked as pressed and the other identity sounds on. *)
C23_Witness ==
  /\ lastOp.op = "keydown" /\ lastOp.outcome = "threw"
  /\ ~Live(lastOp.noteId)
  /\ SeqHas(pressedKeys, lastOp.noteId)
  /\ \E i \in DOMAIN timers : timers[i].noteId = lastOp.noteId
  /\ \E k \in DOMAIN activeNotes : ~Releasing(k)

(* C24: when resuming the audio context fails during init() (the promise of
   resume() is rejected, or the context cannot be constructed), the catch
   block leaves isInitialized, the wiring and the context as they were, so
   isInitialized stays false unless another init() call has completed; while
   isInitialized is false a click or keydown calls init() again (a new call
   awaits resume(), or the steps of init run at once on a running context);
   and the initialization can then succeed: a suspended call can be resumed
   and then sets isInitialized. *)
C24_InitFailureAllowsRetry ==
  /\ [][ /\ ( /\ lastOp'.op \in {"initResume", "click", "keydownEvent"}
               /\ lastOp'.outcome = "failed" )
            => ( /\ isInitialized' = isInitialized
                 /\ initRuns' = initRuns
                 /\ audioContext' = audioContext
                 /\ UNCHANGED <<engineVars, visualVars, pressedKeys>> )
         /\ ( /\ lastOp'.op \in {"click", "keydownEvent"}
              /\ ~isInitialized
              /\ lastOp'.outcome # "failed" )
            => ( \/ initCalls' = initCalls + 1 /\ audioContext' = "suspended"
                 \/ initRuns' = initRuns + 1 /\ isInitialized' ) ]_vars
  /\ []( ~isInitialized
          => /\ initCalls > 0
                  => ENABLED (ResumeResolves /\ isInitialized' /\ initRuns' > 0)
             /\ initCalls < MaxInitCalls
                  => ENABLED (ClickStart /\ (initCalls' > initCalls \/ isInitialized'))
             /\ initCalls < MaxInitCalls
                  => \A raw \in InitKeys :
                       ENABLED ( /\ KeyDownEvent(raw)
                                 /\ (initCalls' > initCalls \/ isInitialized') ) )

(* The only init() call has failed at resume(): nothing is initialized, no
   call is pending, and the context is still suspended. *)
C24_Witness ==
  /\ lastOp.op = "initResume" /\ lastOp.outcome = "failed"
  /\ ~isInitialized
  /\ initCalls = 0 /\ initRuns = 0
  /\ audioContext = "suspended"
  /\ animationId = Null

(* C25: the fade duration setting is clamped to 100-3000 ms: after any call
   updateVisualSettings({fadeLength: n}), 100 <= visualSettings.fadeLength
   <= 3000. *)
C25_FadeLengthClampedTo3000 ==
  /\ MIN_FADE_LENGTH <= visualSettings.fadeLength
  /\ visualSettings.fadeLength <= SLIDER_MAX_FADE_LENGTH

(* C26: midiToFrequency(69) is 440 Hz and midiToFrequency(81) is 880 Hz; for
   every MIDI number m and octave offset o in [-2, 2], midiToFrequency(m, o)
   is midiToFrequency(m + 12 * o, 0), twice midiToFrequency(m, o - 1) up to
   rounding; and the note data getNoteForKey returns has adjustedMidi = midi +
   12 * offset and as frequency the frequency of adjustedMidi. *)
C26_OctaveOffsetIsTwelveSemitones ==
  /\ noteQuery.fn = "midiToFrequency"
       => LET m == noteQuery.midiNote
              o == noteQuery.octaveOffset
          IN /\ (m = 69 /\ o = 0) => noteQuery.value = 4400
             /\ (m = 81 /\ o = 0) => noteQuery.value = 8800
             /\ (m = 69 /\ o = 1) => noteQuery.value = 8800
             /\ noteQuery.value = midiToFrequency(m + 12 * o, 0)
             /\ o > MIN_OCTAVE_OFFSET
                  => /\ noteQuery.value >= 2 * midiToFrequency(m, o - 1)
                     /\ noteQuery.value <= 2 * midiToFrequency(m, o - 1) + 1
  /\ (noteQuery.fn = "getNoteForKey" /\ noteQuery.found)
       => /\ noteQuery.octaveOffset = currentOctaveOffset
          /\ noteQuery.midiNote = KEY_TO_NOTE[noteQuery.key]
          /\ noteQuery.adjustedMidi = noteQuery.midiNote + 12 * currentOctaveOffset
          /\ noteQuery.value = midiToFrequency(noteQuery.adjustedMidi, 0)
          /\ (noteQuery.key = "n" /\ currentOctaveOffset = 2) => noteQuery.value = 4400
          /\ (noteQuery.key = "n" /\ currentOctaveOffset = -2) => noteQuery.value = 275

(* getNoteForKey has returned A4 for key N two octaves up. *)
C26_Witness ==
  /\ noteQuery.fn = "getNoteForKey" /\ noteQuery.found
  /\ noteQuery.key = "n"
  /\ currentOctaveOffset = 2
  /\ noteQuery.adjustedMidi = 69
  /\ noteQuery.value = 4400

(* C27: after any sequence of octaveUp, octaveDown, resetOctave and
   setOctaveOffset(n), currentOctaveOffset is an integer in [-2, 2]; octaveUp
   moves it up by one and leaves it at +2, octaveDown moves it down by one
   and leaves it at -2, resetOctave sets it to 0, setOctaveOffset(n) sets it
   to n clamped; and each call returns the offset it has stored. *)
C27_OctaveOffsetClamped ==
  /\ [](currentOctaveOffset \in MIN_OCTAVE_OFFSET..MAX_OCTAVE_OFFSET)
  /\ [][ /\ OctaveUp
            => currentOctaveOffset' =
                 IF currentOctaveOffset = 2 THEN 2 ELSE currentOctaveOffset + 1
         /\ OctaveDown
            => currentOctaveOffset' =
                 IF currentOctaveOffset = -2 THEN -2 ELSE currentOctaveOffset - 1
         /\ ResetOctave => currentOctaveOffset' = 0
         /\ noteQuery'.fn = "setOctaveOffset"
            => ( /\ noteQuery'.value = currentOctaveOffset'
                 /\ currentOctaveOffset' =
                      IF noteQuery'.octaveOffset > 2 THEN 2
                      ELSE IF noteQuery'.octaveOffset < -2 THEN -2
                      ELSE noteQuery'.octaveOffset )
         /\ currentOctaveOffset' # currentOctaveOffset
            => noteQuery'.fn = "setOctaveOffset" ]_vars

(* octaveDown has been called at -2 and has returned -2. *)
C27_Witness ==
  /\ noteQuery.fn = "setOctaveOffset"
  /\ noteQuery.octaveOffset = -3
  /\ noteQuery.value = -2
  /\ currentOctaveOffset = -2

(* C28: after every engine operation (playNote, stopNote, forceStopNote,
   cleanup timer) activeNotes and noteState.active hold the same identities,
   the two entries of an identity carry the same instanceId and frequency,
   and the releasing flag of the visual entry is set exactly when isReleasing
   of the audio entry is true. *)
C28_AudioAndVisualStateAgree ==
  /\ DOMAIN activeNotes = DOMAIN noteState
  /\ \A k \in DOMAIN activeNotes :
       /\ noteState[k].instanceId = activeNotes[k].instanceId
       /\ noteState[k].frequency = activeNotes[k].frequency
       /\ noteState[k].releasing = activeNotes[k].isReleasing

(* One identity is releasing in both maps while another, retriggered with
   another frequency after a release, is playing in both. *)
C28_Witness ==
  \E k, j \in DOMAIN activeNotes :
    /\ k # j
    /\ activeNotes[k].isReleasing /\ noteState[k].releasing
    /\ ~activeNotes[j].isReleasing /\ ~noteState[j].releasing
    /\ activeNotes[j].instanceId > 2
    /\ noteState[j].instanceId = activeNotes[j].instanceId

(* C29: after every sync tick, every identity of the engine's active set has
   a visual entity that is not fading, and an entity is fading only while its
   identity is absent from the active set. *)
C29_ActiveIdentityHasLiveEntity ==
  lastOp.op = "render"
    => /\ \A k \in DOMAIN noteState :
            /\ HasEntity(visualEntities, k)
            /\ ~EntityOf(visualEntities, k).fading
       /\ \A i \in DOMAIN visualEntities :
            visualEntities[i].fading => ~Has(noteState, visualEntities[i].noteId)

(* C30: stopNote never raises the sampled amplitude: getNoteGain(k) sampled
   right after stopNote(k) is at most getNoteGain(k) sampled right before it,
   for every time elapsed since playNote, the attack ramp included. *)
C30_StopNeverRaisesGain ==
  [][ \A k \in NoteIds :
        (lastOp'.op = "stopNote" /\ lastOp'.noteId = k)
          => getNoteGainAt(Engine', k, now) <= getNoteGain(k) ]_vars

(* C31: whenever an identity of the active set has a visual entity, the
   frequency of the entity is the frequency of the identity's live tone, also
   after the identity has been retriggered during its release with another
   frequency. Stated for the states a frame leaves. *)
C31_EntityFrequencyIsToneFrequency ==
  lastOp.op = "render"
    => \A i \in DOMAIN visualEntities :
         Has(activeNotes, visualEntities[i].noteId)
           => visualEntities[i].frequency
                = activeNotes[visualEntities[i].noteId].frequency

(* C32: the steps of init() after the await (keyboard wiring, registration
   of the octave shortcut listener, UI build, start of the render loop) run
   at most once, also when several click or keydown events arrive while a
   first init() call is awaiting resumeAudioContext(). *)
C32_InitStepsRunOnce ==
  initRuns <= 1

(* C33: every identity with a live instance that is not releasing is in
   pressedKeys, at every reachable state; so when releaseAllKeys returns,
   pressedKeys is empty and every live instance is releasing, and unless a
   keydown plays a note the active set then becomes empty. *)
C33_SoundingKeysArePressed ==
  /\ [](\A k \in DOMAIN activeNotes :
          ~activeNotes[k].isReleasing => SeqHas(pressedKeys, k))
  /\ [](lastOp.op = "blur"
          => /\ pressedKeys = <<>>
             /\ \A k \in DOMAIN activeNotes : activeNotes[k].isReleasing)
  /\ (lastOp.op = "blur" /\ lastOp.outcome = "released")
       ~> ( \/ DOMAIN activeNotes = {}
            \/ lastOp.op = "keydown" /\ lastOp.outcome = "played" )

(* releaseAllKeys has returned with two identities live, both releasing, one
   of them released by the call. *)
C33_Witness ==
  /\ lastOp.op = "blur" /\ lastOp.outcome = "released"
  /\ pressedKeys = <<>>
  /\ Cardinality(DOMAIN activeNotes) = 2
  /\ \A k \in DOMAIN activeNotes : activeNotes[k].isReleasing
  /\ \E t \in DOMAIN timers : timers[t].fireAt = now + RELEASE_TIME + CLEANUP_MARGIN

(* C34: a tone started by the keydown of a physical key is released when
   that key goes up, whatever the Shift state has become: the keyup, whether
   its key string is the one of the keydown, its other letter case or the
   shifted symbol, takes the key out of pressedKeys and calls stopNote for
   the identity used at keydown. *)
C34_KeyUpReleasesPhysicalKey ==
  [][ \A raw \in RawKeys :
        ( /\ HandleKeyUp(raw)
          /\ SeqHas(pressedKeys, PhysicalKey(raw)) )
        => /\ ~SeqHas(pressedKeys', PhysicalKey(raw))
           /\ Has(activeNotes, PhysicalKey(raw))
                => /\ Has(activeNotes', PhysicalKey(raw))
                   /\ activeNotes'[PhysicalKey(raw)].isReleasing ]_vars

(* C35: a fading entity whose identity is not in the active set has computed
   opacity 0 and is not painted, on every frame from the one that marks it as
   fading to the one that destroys it. *)
C35_FadingEntityInvisible ==
  lastOp.op = "render"
    => \A i \in DOMAIN visualEntities :
         ( /\ visualEntities[i].fading
           /\ ~Has(activeNotes, visualEntities[i].noteId) )
         => /\ visualEntities[i].noteId \notin frame.painted
            /\ Has(frame.opacity, visualEntities[i].noteId)
                 => frame.opacity[visualEntities[i].noteId] = 0

(* A frame has computed opacity 0 for an entity that has been fading since
   an earlier frame, inside the 500 ms of the fade, and has painted the
   entity of another identity. *)
C35_Witness ==
  /\ lastOp.op = "render" /\ ~frame.threw
  /\ frame.painted # {}
  /\ \E i \in DOMAIN visualEntities :
       /\ visualEntities[i].fading
       /\ visualEntities[i].fadeStartTime < now
       /\ now - visualEntities[i].fadeStartTime < FADE_RENDER_SPAN
       /\ ~Has(activeNotes, visualEntities[i].noteId)
       /\ Has(frame.opacity, visualEntities[i].noteId)
       /\ frame.opacity[visualEntities[i].noteId] = 0

(* C36: after any sequence of startRenderLoop, stopRenderLoop and frame
   callbacks at most one animation-frame callback is pending;
   startRenderLoop while a loop is running schedules nothing; and after
   stopRenderLoop no callback is pending, so no frame runs, until
   startRenderLoop is called again. *)
C36_OneFrameCallbackPending ==
  /\ [](frameCallbacks <= 1)
  /\ [](frameCallbacks = IF frameRequest = "none" THEN 0 ELSE 1)
  /\ []((animationId = Null \/ lastOp.op = "stopRenderLoop")
          => (frameCallbacks = 0 /\ ~ENABLED RenderFrame))
  /\ [][ (frameCallbacks > 0 /\ StartRenderLoop)
            => (frameCallbacks' = frameCallbacks /\ UNCHANGED visualVars) ]_vars
  /\ [][ (lastOp'.op = "stopRenderLoop")
            => (animationId' = Null /\ frameCallbacks' = 0) ]_vars

(* stopRenderLoop has cancelled the callback of a loop that had run frames
   with an entity. *)
C36_Witness ==
  /\ lastOp.op = "stopRenderLoop" /\ lastOp.outcome = "stopped"
  /\ frameCallbacks = 0
  /\ animationId = Null
  /\ frame.painted # {}

====
